---- MODULE Spec2Model ----
(***************************************************************************)
(* A model of fforms: the dotted-key expander (expand_dots), bind_dotted,  *)
(* the form_schema tree (make_from_literal, validate) and the bound field tree  *)
(* (BoundField, is_valid, _propagate_validation).                          *)
(*                                                                         *)
(* Python values are records tagged by t.  A Python str is a sequence of   *)
(* one-character strings, so that splitting a key at its first delimiter,  *)
(* int() and str() are computed and not assumed.  A Python dict is the     *)
(* ordered sequence of its <<key, value>> items (insertion order), keys    *)
(* being str; dict equality ignores the order (PyEq).                      *)
(***************************************************************************)
EXTENDS Integers, Sequences, FiniteSets, TLC

VARIABLES
    nested,     \* SpecRound: the nested value a client flattens
    flat,       \* the flat mapping handed to expand_dots (its items, in order)
    out,        \* the value expand_dots returned, or the exception it raised
    form_literal, \* SpecForm: the literal handed to make_from_literal
    form_schema,  \* the schema made from it
    form_data,  \* the data handed to BoundField
    form,       \* the root BoundField
    result,     \* the last is_valid call: the field's path, the value returned
                \* or the exception raised
    calls,      \* the calls validate made during that is_valid, in order
    ncalls,     \* the number of is_valid calls made so far
    dotted2,    \* SpecBind: the second mapping handed to bind_dotted, or None
    form_data2, \* SpecShare: the data handed to a second BoundField
    form2,      \* the root of the second BoundField tree of the same schema
    heap,       \* SpecSchema: the dict objects, by reference, as item sequences
    given,      \* the items the children dict held when MapSchema was constructed
    map_schema, \* the MapSchema constructed from the children dict
    chain_data, \* SpecChain: the local data of chained_validator
    objects,    \* SpecCache: the live objects, by address
    created,    \* the number of objects created so far
    cache_data, \* WeakKeyNonHashingDict._data: address -> (ref, value)
    assigned,   \* the objects assigned as keys and not deleted since, with values
    invocations,\* the calls of the wrapped function, in order
    pc          \* position of the client program

expandVars == <<nested, flat, out>>
shareVars == <<form_data2, form2>>
aliasVars == <<heap, given, map_schema>>
chainVars == <<chain_data>>
cacheVars == <<objects, created, cache_data, assigned, invocations>>
formVars == <<form_literal, form_schema, form_data, form, result, calls, ncalls,
              dotted2, shareVars, aliasVars, chainVars, cacheVars, chainVars, cacheVars>>
vars == <<nested, flat, out, form_literal, form_schema, form_data, form,
          result, calls, ncalls, dotted2, form_data2, form2, heap, given,
          map_schema, chain_data, objects, created, cache_data, assigned,
          invocations, pc>>

(***************************************************************************)
(* Python values                                                           *)
(***************************************************************************)
PyNone == [t |-> "none"]
PyStr(s) == [t |-> "str", s |-> s]
PyInt(n) == [t |-> "int", n |-> n]
PyDict(items) == [t |-> "dict", items |-> items]
PyList(elems) == [t |-> "list", elems |-> elems]
Raise(exc, kind, head) == [t |-> "raise", exc |-> exc, kind |-> kind, head |-> head]
NoValue == [t |-> "unset"]

IsRaise(v) == v.t = "raise"

\* ---- ordered dict primitives (items: sequence of <<key, value>>) ----
RECURSIVE IndexOfKey(_, _, _)
IndexOfKey(items, key, i) ==
    IF i > Len(items) THEN 0
    ELSE IF items[i][1] = key THEN i
    ELSE IndexOfKey(items, key, i + 1)

HasKey(items, key) == IndexOfKey(items, key, 1) # 0

GetItem(items, key) == items[IndexOfKey(items, key, 1)][2]

\* d[key] = val: a present key keeps its position, a new key goes last
SetItem(items, key, val) ==
    LET i == IndexOfKey(items, key, 1) IN
    IF i = 0 THEN Append(items, <<key, val>>)
    ELSE [items EXCEPT ![i] = <<key, val>>]

KeysOf(items) == {items[i][1] : i \in 1..Len(items)}

\* a == b on Python values; dicts compare as mappings, whatever their order
RECURSIVE PyEq(_, _)
PyEq(a, b) ==
    IF a.t # b.t THEN FALSE
    ELSE IF a.t = "dict" THEN
        /\ KeysOf(a.items) = KeysOf(b.items)
        /\ Len(a.items) = Len(b.items)
        /\ \A i \in 1..Len(a.items) :
              PyEq(a.items[i][2], GetItem(b.items, a.items[i][1]))
    ELSE IF a.t = "list" THEN
        /\ Len(a.elems) = Len(b.elems)
        /\ \A i \in 1..Len(a.elems) : PyEq(a.elems[i], b.elems[i])
    ELSE a = b

(***************************************************************************)
(* str primitives                                                          *)
(***************************************************************************)
Digits == <<"0", "1", "2", "3", "4", "5", "6", "7", "8", "9">>

IsDelim(c) == c = "." \/ c = ":"

HasDelim(key) == \E i \in 1..Len(key) : IsDelim(key[i])

FirstDelim(key) == CHOOSE i \in 1..Len(key) :
    /\ IsDelim(key[i])
    /\ \A j \in 1..(i - 1) : ~IsDelim(key[j])

\* re.split('([:.])', key, 1) on a key holding a delimiter
SplitKey(key) ==
    LET i == FirstDelim(key) IN
    [head |-> SubSeq(key, 1, i - 1), kind |-> key[i], tail |-> SubSeq(key, i + 1, Len(key))]

DigitVal(c) == (CHOOSE i \in 1..10 : Digits[i] = c) - 1

IsDigit(c) == \E i \in 1..10 : Digits[i] = c

\* an int() that reads the empty string as 0
IsIntLiteral_OrEmpty(s) == \A i \in 1..Len(s) : \E d \in 1..10 : Digits[d] = s[i]

\* int(s) accepts s: over the characters of the model (letters, digits, . and :)
\* exactly the non-empty digit strings
IsIntLiteral(s) == Len(s) > 0 /\ \A i \in 1..Len(s) : IsDigit(s[i])

RECURSIVE ParseInt(_)
ParseInt(s) ==
    IF Len(s) = 0 THEN 0
    ELSE 10 * ParseInt(SubSeq(s, 1, Len(s) - 1)) + DigitVal(s[Len(s)])

\* str(n), n >= 0
RECURSIVE IntToStr(_)
IntToStr(n) ==
    IF n < 10 THEN <<Digits[n + 1]>>
    ELSE IntToStr(n \div 10) \o <<Digits[(n % 10) + 1]>>

(***************************************************************************)
(* _expand_dots_1: one layer of dots and colons.  The loop over            *)
(* base_dict.items() stops at the first raise.                             *)
(***************************************************************************)
NakedParent(head) == Raise("ValueError", "naked_parent", head)
DictList(head) == Raise("ValueError", "dict_list", head)
BadInt(frag) == Raise("ValueError", "int", frag)

\* d[head] = {tail: val}: the entries gathered under head before are dropped
SetDefaultItem_Replace(d, head, tail, val) ==
    SetItem(d, head, <<<<tail, val>>>>)

\* d.setdefault(head, {})[tail] = val
SetDefaultItem(d, head, tail, val) ==
    IF HasKey(d, head)
    THEN SetItem(d, head, SetItem(GetItem(d, head), tail, val))
    ELSE Append(d, <<head, <<<<tail, val>>>>>>)

\* the layer without the check of head against the naked keys seen so far
Expand1Step_NoSinglesCheck(acc, key, val) ==
    IF ~HasDelim(key) THEN
        IF HasKey(acc.dicts, key) \/ HasKey(acc.lists, key)
        THEN [acc EXCEPT !.err = NakedParent(key)]
        ELSE [acc EXCEPT !.singles = SetItem(@, key, val)]
    ELSE
        LET sp == SplitKey(key) IN
        IF sp.kind = "." THEN
            IF HasKey(acc.lists, sp.head)
            THEN [acc EXCEPT !.err = DictList(sp.head)]
            ELSE [acc EXCEPT !.dicts = SetDefaultItem(@, sp.head, sp.tail, val)]
        ELSE
            IF HasKey(acc.dicts, sp.head)
            THEN [acc EXCEPT !.err = DictList(sp.head)]
            ELSE [acc EXCEPT !.lists = SetDefaultItem(@, sp.head, sp.tail, val)]

\* the layer that checks dict against list only when the '.' key comes last
Expand1Step_NoDictsCheck(acc, key, val) ==
    IF ~HasDelim(key) THEN
        IF HasKey(acc.dicts, key) \/ HasKey(acc.lists, key)
        THEN [acc EXCEPT !.err = NakedParent(key)]
        ELSE [acc EXCEPT !.singles = SetItem(@, key, val)]
    ELSE
        LET sp == SplitKey(key) IN
        IF HasKey(acc.singles, sp.head)
        THEN [acc EXCEPT !.err = NakedParent(sp.head)]
        ELSE IF sp.kind = "." THEN
            IF HasKey(acc.lists, sp.head)
            THEN [acc EXCEPT !.err = DictList(sp.head)]
            ELSE [acc EXCEPT !.dicts = SetDefaultItem(@, sp.head, sp.tail, val)]
        ELSE [acc EXCEPT !.lists = SetDefaultItem(@, sp.head, sp.tail, val)]

Expand1Step(acc, key, val) ==
    IF ~HasDelim(key) THEN
        IF HasKey(acc.dicts, key) \/ HasKey(acc.lists, key)
        THEN [acc EXCEPT !.err = NakedParent(key)]
        ELSE [acc EXCEPT !.singles = SetItem(@, key, val)]
    ELSE
        LET sp == SplitKey(key) IN
        IF HasKey(acc.singles, sp.head)
        THEN [acc EXCEPT !.err = NakedParent(sp.head)]
        ELSE IF sp.kind = "." THEN
            IF HasKey(acc.lists, sp.head)
            THEN [acc EXCEPT !.err = DictList(sp.head)]
            ELSE [acc EXCEPT !.dicts = SetDefaultItem(@, sp.head, sp.tail, val)]
        ELSE
            IF HasKey(acc.dicts, sp.head)
            THEN [acc EXCEPT !.err = DictList(sp.head)]
            ELSE [acc EXCEPT !.lists = SetDefaultItem(@, sp.head, sp.tail, val)]

RECURSIVE Expand1Loop(_, _, _)
Expand1Loop(base, i, acc) ==
    IF i > Len(base) \/ acc.err # NoValue THEN acc
    ELSE Expand1Loop(base, i + 1, Expand1Step(acc, base[i][1], base[i][2]))

expand_dots_1(base) ==
    Expand1Loop(base, 1, [singles |-> <<>>, dicts |-> <<>>, lists |-> <<>>, err |-> NoValue])

(***************************************************************************)
(* expand_dots: the explicit stack of (base, into) pairs, `into' being a   *)
(* reference into final_dict (here: the path of keys leading to it), and   *)
(* the deferred conversion of the coloned heads to lists.                  *)
(***************************************************************************)
RECURSIVE GetAt(_, _)
GetAt(v, path) ==
    IF path = <<>> THEN v
    ELSE GetAt(GetItem(v.items, Head(path)), Tail(path))

RECURSIVE PutAt(_, _, _)
PutAt(v, path, new) ==
    IF path = <<>> THEN new
    ELSE PyDict(SetItem(v.items, Head(path),
                        PutAt(GetItem(v.items, Head(path)), Tail(path), new)))

\* into.update(singles)
RECURSIVE DictUpdate(_, _, _)
DictUpdate(items, other, i) ==
    IF i > Len(other) THEN items
    ELSE DictUpdate(SetItem(items, other[i][1], other[i][2]), other, i + 1)

\* for key, val in subs.items(): into[key] = {}; args.append((val, into[key]))
\* and, for the coloned heads, needs_conversion.append((into, key))
RECURSIVE PushSubs(_, _, _, _, _)
PushSubs(st, into, subs, i, isList) ==
    IF i > Len(subs) THEN st
    ELSE
        LET key == subs[i][1]
            cur == GetAt(st.final, into)
            st2 == [st EXCEPT
                !.final = PutAt(@, into, PyDict(SetItem(cur.items, key, PyDict(<<>>)))),
                !.args = Append(@, [base |-> subs[i][2], into |-> Append(into, key)]),
                !.conv = IF isList THEN Append(@, [parent |-> into, key |-> key]) ELSE @]
        IN PushSubs(st2, into, subs, i + 1, isList)

\* the body of `while args'
ExpandIter(st) ==
    LET top == st.args[Len(st.args)]
        popped == [st EXCEPT !.args = SubSeq(@, 1, Len(@) - 1)]
        r == expand_dots_1(top.base)
    IN  IF r.err # NoValue THEN [popped EXCEPT !.err = r.err]
        ELSE
            LET cur == GetAt(popped.final, top.into)
                st1 == [popped EXCEPT
                    !.final = PutAt(@, top.into, PyDict(DictUpdate(cur.items, r.singles, 1)))]
                st2 == PushSubs(st1, top.into, r.dicts, 1, FALSE)
            IN  PushSubs(st2, top.into, r.lists, 1, TRUE)

RECURSIVE ExpandLoop(_)
ExpandLoop(st) ==
    IF st.err # NoValue \/ st.args = <<>> THEN st
    ELSE ExpandLoop(ExpandIter(st))

\* s < t for digit strings compared as text
RECURSIVE StrLess(_, _)
StrLess(s, t) ==
    IF t = <<>> THEN FALSE
    ELSE IF s = <<>> THEN TRUE
    ELSE IF Head(s) # Head(t) THEN DigitVal(Head(s)) < DigitVal(Head(t))
    ELSE StrLess(Tail(s), Tail(t))

\* the sort without key=int: ascending by the text of the key
RECURSIVE InsertByText(_, _)
InsertByText(sorted, item) ==
    IF sorted = <<>> THEN <<item>>
    ELSE IF ~StrLess(item[1], sorted[Len(sorted)][1])
         THEN Append(sorted, item)
         ELSE Append(InsertByText(SubSeq(sorted, 1, Len(sorted) - 1), item),
                     sorted[Len(sorted)])

\* sorted(items, key=lambda x: int(x[0])): stable, ascending by integer value
RECURSIVE InsertByInt(_, _)
InsertByInt(sorted, item) ==
    IF sorted = <<>> THEN <<item>>
    ELSE IF ParseInt(sorted[Len(sorted)][1]) <= ParseInt(item[1])
         THEN Append(sorted, item)
         ELSE Append(InsertByInt(SubSeq(sorted, 1, Len(sorted) - 1), item),
                     sorted[Len(sorted)])

RECURSIVE SortByInt(_, _, _)
SortByInt(items, i, acc) ==
    IF i > Len(items) THEN acc
    ELSE SortByInt(items, i + 1, InsertByInt(acc, items[i]))

\* the first key of items that int() rejects, in iteration order (0: none)
RECURSIVE FirstBadInt(_, _)
FirstBadInt(items, i) ==
    IF i > Len(items) THEN 0
    ELSE IF ~IsIntLiteral(items[i][1]) THEN i
    ELSE FirstBadInt(items, i + 1)

\* parent[key] = [val for _, val in parent[key].items()]: no sort, the
\* elements stay in the order of the keys
ToList_Unsorted(items) ==
    LET bad == FirstBadInt(items, 1) IN
    IF bad # 0 THEN BadInt(items[bad][1])
    ELSE PyList([i \in 1..Len(items) |-> items[i][2]])

\* parent[key] = [val for _, val in sorted(parent[key].items(), key=...)]
ToList(items) ==
    LET bad == FirstBadInt(items, 1) IN
    IF bad # 0 THEN BadInt(items[bad][1])
    ELSE LET s == SortByInt(items, 1, <<>>) IN
         PyList([i \in 1..Len(s) |-> s[i][2]])

\* for parent, key in reversed(needs_conversion)
RECURSIVE ConvertLoop(_, _)
ConvertLoop(st, i) ==
    IF i = 0 \/ st.err # NoValue THEN st
    ELSE
        LET c == st.conv[i]
            at == Append(c.parent, c.key)
            lst == ToList(GetAt(st.final, at).items)
        IN  IF IsRaise(lst) THEN [st EXCEPT !.err = lst]
            ELSE ConvertLoop([st EXCEPT !.final = PutAt(@, at, lst)], i - 1)

\* expand_dots(base_dict): the nested value, or the exception raised
expand_dots(base) ==
    IF base = <<>> THEN PyDict(<<>>)
    ELSE
        LET st0 == [args |-> <<[base |-> base, into |-> <<>>]>>,
                    final |-> PyDict(<<>>), conv |-> <<>>, err |-> NoValue]
            st1 == ExpandLoop(st0)
            st2 == ConvertLoop(st1, Len(st1.conv))
        IN  IF st2.err # NoValue THEN st2.err ELSE st2.final

(***************************************************************************)
(* Validators.  A callable is [t |-> "fn", f |-> its name]; calling it     *)
(* gives the value returned, or the ValidationError raised.                *)
(***************************************************************************)
PyBool(b) == [t |-> "bool", b |-> b]
Fn(f) == [t |-> "fn", f |-> f]
DeferredMessage(msg) == [t |-> "deferred", msg |-> msg]

\* ValidationError(message, clean_data)
ValidationError(message, clean_data) ==
    [t |-> "err", message |-> message, clean_data |-> clean_data]

RaiseVE(err) == [t |-> "raise", exc |-> "ValidationError", err |-> err]

IsError(v) == v.t = "err"

\* from_bool_func(func, msg)(data), ok being func(data)
BoolValidator(ok, msg, data) ==
    IF ok THEN data ELSE RaiseVE(ValidationError(DeferredMessage(msg), data))

\* the first child of data that is a ValidationError (0: none)
RECURSIVE FirstError(_, _)
FirstError(children, i) ==
    IF i > Len(children) THEN 0
    ELSE IF IsError(children[i]) THEN i
    ELSE FirstError(children, i + 1)

ChildValues(data) ==
    IF data.t = "dict" THEN [i \in 1..Len(data.items) |-> data.items[i][2]]
    ELSE data.elems

\* all_children(data): ensure_parent, then fail_if_error(child, "", data)
all_children(data) ==
    IF data.t \notin {"dict", "list"}
    THEN RaiseVE(ValidationError(DeferredMessage("{field.name} must be a container"), data))
    ELSE IF FirstError(ChildValues(data), 1) # 0
         THEN RaiseVE(ValidationError(PyStr(<<>>), data))
         ELSE data

\* a pre_processor a client supplies to fill in a default:
\* lambda data: "x" if data is None else data
with_default(data) == IF data = PyNone THEN PyStr(<<"x">>) ELSE data

\* a str message with replacement fields, not wrapped in a DeferredMessage
Template(msg) == [t |-> "template", msg |-> msg]

\* as_int(data): int(data), a TypeError or ValueError becoming ValidationError
as_int(data) ==
    IF data.t = "int" THEN data
    ELSE IF data.t = "bool" THEN PyInt(IF data.b THEN 1 ELSE 0)
    ELSE IF data.t = "str" /\ IsIntLiteral(data.s) THEN PyInt(ParseInt(data.s))
    ELSE RaiseVE(ValidationError(Template("{field.name} must be a whole number"), data))

CallValidator(v, data) ==
    IF v.f = "noop" THEN data
    ELSE IF v.f = "with_default" THEN with_default(data)
    ELSE IF v.f = "as_int" THEN as_int(data)
    ELSE IF v.f = "not_none"
         THEN BoolValidator(data # PyNone, "{field.name} is required.", data)
    ELSE IF v.f = "ensure_str"
         THEN BoolValidator(data.t = "str", "{field.name} must be a {class_sig}", data)
    ELSE all_children(data)

\* ValidationError.bind(bound_field): message.format(field=bound_field)
BindMessage(err, field) ==
    IF err.message.t \in {"deferred", "template"}
    THEN [t |-> "text", msg |-> err.message.msg, field_name |-> field.name]
    ELSE err.message

(***************************************************************************)
(* Schema: MapSchema, SequenceSchema, LeafSchema and make_from_literal.    *)
(* children holds the child schemas in order; for a MapSchema keys holds   *)
(* the key of each child in _child_by_name.                                *)
(***************************************************************************)
Schema(cls, children, keys, name, validator) ==
    [t |-> "schema", cls |-> cls, children |-> children, keys |-> keys,
     name |-> name, validator |-> validator, pre_processor |-> Fn("noop")]

MapSchema(items, name) ==
    Schema("MapSchema", [i \in 1..Len(items) |-> items[i][2]],
           [i \in 1..Len(items) |-> items[i][1]], name, Fn("all_children"))

SequenceSchema(child, name) ==
    Schema("SequenceSchema", <<child>>, <<>>, name, Fn("all_children"))

LeafSchema(name) == Schema("LeafSchema", <<>>, <<>>, name, Fn("noop"))

is_sequence(schema) == schema.cls = "SequenceSchema"

RECURSIVE make_from_literal(_, _)
make_from_literal(literal, name) ==
    IF literal.t = "dict" THEN
        MapSchema([i \in 1..Len(literal.items) |->
                      <<literal.items[i][1],
                        make_from_literal(literal.items[i][2], PyStr(literal.items[i][1]))>>],
                  name)
    ELSE IF literal.t = "list" THEN
        IF Len(literal.elems) # 1
        THEN Raise("ValueError", "one_child", <<>>)
        ELSE SequenceSchema(make_from_literal(literal.elems[1], PyInt(0)), name)
    \* any other literal, a Schema instance included, is taken as the validator
    ELSE [LeafSchema(name) EXCEPT !.validator = literal]

\* data.get(name)
DictGet(data, key) ==
    IF HasKey(data.items, key) THEN GetItem(data.items, key) ELSE PyNone

\* Schema._run_validator: a ValidationError raised is returned
run_validator(schema, data) ==
    LET r == CallValidator(schema.validator, data) IN
    IF r.t = "raise" /\ r.exc = "ValidationError" THEN r.err ELSE r

Event(ev, path, val) == [ev |-> ev, path |-> path, val |-> val]

\* validate with the node's validator run on the data before the children
\* are validated
RECURSIVE validate_ValidatorFirst(_, _, _)
validate_ValidatorFirst(schema, data, path) ==
    LET RECURSIVE Kids(_, _, _)
        Kids(d, i, n) ==
            IF i > n THEN <<>>
            ELSE (IF is_sequence(schema)
                  THEN validate_ValidatorFirst(schema.children[1], d.elems[i],
                                               Append(path, PyInt(i - 1)))
                  ELSE validate_ValidatorFirst(schema.children[i],
                                               DictGet(d, schema.keys[i]),
                                               Append(path, PyStr(schema.keys[i])))).log
                 \o Kids(d, i + 1, n)
        Done(d, n) ==
            LET val == run_validator(schema, d) IN
            [val |-> val,
             log |-> <<Event("validate", path, data), Event("validator", path, d)>>
                     \o Kids(d, 1, n) \o <<Event("return", path, val)>>]
    IN  IF schema.cls = "MapSchema" THEN
            Done(IF data = PyNone THEN PyDict(<<>>) ELSE data, Len(schema.children))
        ELSE IF schema.cls = "SequenceSchema" THEN
            Done(IF data = PyNone THEN PyList(<<>>) ELSE data,
                 IF data = PyNone THEN 0 ELSE Len(data.elems))
        ELSE Done(data, 0)

\* validate with the children after the first failing one left unvalidated
RECURSIVE validate_StopAtFailure(_, _, _)
validate_StopAtFailure(schema, data, path) ==
    LET RECURSIVE Kids(_, _, _)
        Kids(d, i, n) ==
            IF i > n THEN [vals |-> <<>>, log |-> <<>>]
            ELSE LET r == IF is_sequence(schema)
                          THEN validate_StopAtFailure(schema.children[1], d.elems[i],
                                                      Append(path, PyInt(i - 1)))
                          ELSE validate_StopAtFailure(schema.children[i],
                                                      DictGet(d, schema.keys[i]),
                                                      Append(path, PyStr(schema.keys[i])))
                     rest == IF IsError(r.val) THEN [vals |-> <<>>, log |-> <<>>]
                             ELSE Kids(d, i + 1, n)
                 IN  [vals |-> <<r.val>> \o rest.vals, log |-> r.log \o rest.log]
        Done(arg, log) ==
            LET val == run_validator(schema, arg) IN
            [val |-> val,
             log |-> <<Event("validate", path, data)>> \o log
                     \o <<Event("validator", path, arg), Event("return", path, val)>>]
    IN  IF schema.cls = "MapSchema" THEN
            LET d == IF data = PyNone THEN PyDict(<<>>) ELSE data
                k == Kids(d, 1, Len(schema.children))
            IN  Done(PyDict([i \in 1..Len(k.vals) |-> <<schema.keys[i], k.vals[i]>>]), k.log)
        ELSE IF schema.cls = "SequenceSchema" THEN
            LET d == IF data = PyNone THEN PyList(<<>>) ELSE data
                k == Kids(d, 1, Len(d.elems))
            IN  Done(PyList(k.vals), k.log)
        ELSE Done(data, <<>>)

\* validate with the input keys the map schema does not name passed on to
\* the validator
RECURSIVE validate_KeepExtraKeys(_, _, _)
validate_KeepExtraKeys(schema, data, path) ==
    LET RECURSIVE Kids(_, _, _)
        \* the children's results, in the order of the comprehension
        Kids(d, i, n) ==
            IF i > n THEN [vals |-> <<>>, log |-> <<>>]
            ELSE LET r == IF is_sequence(schema)
                          THEN validate_KeepExtraKeys(schema.children[1], d.elems[i],
                                        Append(path, PyInt(i - 1)))
                          ELSE validate_KeepExtraKeys(schema.children[i], DictGet(d, schema.keys[i]),
                                        Append(path, PyStr(schema.keys[i])))
                     rest == Kids(d, i + 1, n)
                 IN  [vals |-> <<r.val>> \o rest.vals, log |-> r.log \o rest.log]
        Done(arg, log) ==
            LET val == run_validator(schema, arg) IN
            [val |-> val,
             log |-> <<Event("validate", path, data)>> \o log
                     \o <<Event("validator", path, arg), Event("return", path, val)>>]
    IN  IF schema.cls = "MapSchema" THEN
            LET d == IF data = PyNone THEN PyDict(<<>>) ELSE data
                k == Kids(d, 1, Len(schema.children))
                extra == SelectSeq(d.items, LAMBDA it :
                                 \A j \in 1..Len(schema.keys) : schema.keys[j] # it[1])
            IN  Done(PyDict([i \in 1..Len(k.vals) |-> <<schema.keys[i], k.vals[i]>>]
                            \o extra), k.log)
        ELSE IF schema.cls = "SequenceSchema" THEN
            LET d == IF data = PyNone THEN PyList(<<>>) ELSE data
                k == Kids(d, 1, Len(d.elems))
            IN  Done(PyList(k.vals), k.log)
        ELSE Done(data, <<>>)

\* schema.validate(data): the value returned and, in order, the calls made:
\* validate entered ("validate"), a validator invoked ("validator"),
\* validate returned ("return"); path leads from the root to the node
RECURSIVE validate(_, _, _)
validate(schema, data, path) ==
    LET RECURSIVE Kids(_, _, _)
        \* the children's results, in the order of the comprehension
        Kids(d, i, n) ==
            IF i > n THEN [vals |-> <<>>, log |-> <<>>]
            ELSE LET r == IF is_sequence(schema)
                          THEN validate(schema.children[1], d.elems[i],
                                        Append(path, PyInt(i - 1)))
                          ELSE validate(schema.children[i], DictGet(d, schema.keys[i]),
                                        Append(path, PyStr(schema.keys[i])))
                     rest == Kids(d, i + 1, n)
                 IN  [vals |-> <<r.val>> \o rest.vals, log |-> r.log \o rest.log]
        Done(arg, log) ==
            LET val == run_validator(schema, arg) IN
            [val |-> val,
             log |-> <<Event("validate", path, data)>> \o log
                     \o <<Event("validator", path, arg), Event("return", path, val)>>]
    IN  IF schema.cls = "MapSchema" THEN
            LET d == IF data = PyNone THEN PyDict(<<>>) ELSE data
                k == Kids(d, 1, Len(schema.children))
            IN  Done(PyDict([i \in 1..Len(k.vals) |-> <<schema.keys[i], k.vals[i]>>]), k.log)
        ELSE IF schema.cls = "SequenceSchema" THEN
            LET d == IF data = PyNone THEN PyList(<<>>) ELSE data
                k == Kids(d, 1, Len(d.elems))
            IN  Done(PyList(k.vals), k.log)
        ELSE Done(data, <<>>)

(***************************************************************************)
(* BoundField.  children holds the child fields in order (the values of    *)
(* _children for a map, the list itself for a sequence).                   *)
(***************************************************************************)
\* bool(data) of `if data:'
Truthy(data) ==
    IF data.t = "none" THEN FALSE
    ELSE IF data.t = "list" THEN data.elems # <<>>
    ELSE IF data.t = "dict" THEN data.items # <<>>
    ELSE IF data.t = "str" THEN data.s # <<>>
    ELSE IF data.t = "int" THEN data.n # 0
    ELSE TRUE

\* the items enumerate(data) yields, or the exception iter(data) raises
Elements(data) ==
    IF data.t = "list" THEN data.elems
    ELSE IF data.t = "dict" THEN [i \in 1..Len(data.items) |-> PyStr(data.items[i][1])]
    ELSE IF data.t = "str" THEN [i \in 1..Len(data.s) |-> PyStr(<<data.s[i]>>)]
    ELSE Raise("TypeError", "iter", <<>>)

\* the first exception among the results rs, or NoValue
RECURSIVE FirstRaise(_, _)
FirstRaise(rs, i) ==
    IF i > Len(rs) THEN NoValue
    ELSE IF IsRaise(rs[i]) THEN rs[i]
    ELSE FirstRaise(rs, i + 1)

\* the exception that binding data to schema raises in _make_children, at
\* this field or at the first descendant that raises, or NoValue
RECURSIVE MakeError(_, _)
MakeError(schema, data) ==
    LET raw_data == CallValidator(schema.pre_processor, data) IN
    IF is_sequence(schema) THEN
        IF ~Truthy(raw_data) THEN MakeError(schema.children[1], PyNone)
        ELSE IF raw_data.t \notin {"list", "dict", "str"} THEN Elements(raw_data)
        ELSE FirstRaise([ix \in 1..Len(Elements(raw_data)) |->
                           MakeError(schema.children[1], Elements(raw_data)[ix])], 1)
    ELSE IF schema.children # <<>> /\ raw_data.t \notin {"none", "dict"}
    THEN Raise("AttributeError", "get", <<>>)
    ELSE FirstRaise([i \in 1..Len(schema.children) |->
                       MakeError(schema.children[i],
                                 IF raw_data = PyNone THEN PyNone
                                 ELSE DictGet(raw_data, schema.children[i].name.s))], 1)

\* NewField with no child made for a sequence without data
RECURSIVE NewField_NoPlaceholder(_, _, _, _)
NewField_NoPlaceholder(schema, data, full_name, name) ==
    LET raw_data == CallValidator(schema.pre_processor, data)
        make_children ==
            IF is_sequence(schema) THEN
                LET fn == full_name \o <<":">>
                    child == schema.children[1]
                IN  IF Truthy(raw_data)
                    THEN [ix \in 1..Len(Elements(raw_data)) |->
                            NewField_NoPlaceholder(child, Elements(raw_data)[ix],
                                     fn \o IntToStr(ix - 1), PyInt(ix - 1))]
                    ELSE <<>>
            ELSE
                LET fn == IF full_name # <<>> THEN full_name \o <<".">> ELSE full_name
                IN  [i \in 1..Len(schema.children) |->
                        LET node == schema.children[i] IN
                        NewField_NoPlaceholder(node,
                                 IF raw_data = PyNone THEN PyNone
                                 ELSE DictGet(raw_data, node.name.s),
                                 fn \o node.name.s, PyNone)]
    IN  [t |-> "field",
         schema |-> schema,
         name |-> IF name # PyNone THEN name ELSE schema.name,
         full_name |-> full_name,
         raw_data |-> raw_data,
         children |-> make_children,
         clean_data |-> PyNone,
         error |-> PyNone]

\* NewField with the dot written directly under the root too
RECURSIVE NewField_AlwaysDot(_, _, _, _)
NewField_AlwaysDot(schema, data, full_name, name) ==
    LET raw_data == CallValidator(schema.pre_processor, data)
        make_children ==
            IF is_sequence(schema) THEN
                LET fn == full_name \o <<":">>
                    child == schema.children[1]
                IN  IF Truthy(raw_data)
                    THEN [ix \in 1..Len(Elements(raw_data)) |->
                            NewField_AlwaysDot(child, Elements(raw_data)[ix],
                                     fn \o IntToStr(ix - 1), PyInt(ix - 1))]
                    ELSE <<NewField_AlwaysDot(child, PyNone, fn \o <<"0">>, PyNone)>>
            ELSE
                LET fn == full_name \o <<".">>
                IN  [i \in 1..Len(schema.children) |->
                        LET node == schema.children[i] IN
                        NewField_AlwaysDot(node,
                                 IF raw_data = PyNone THEN PyNone
                                 ELSE DictGet(raw_data, node.name.s),
                                 fn \o node.name.s, PyNone)]
    IN  [t |-> "field",
         schema |-> schema,
         name |-> IF name # PyNone THEN name ELSE schema.name,
         full_name |-> full_name,
         raw_data |-> raw_data,
         children |-> make_children,
         clean_data |-> PyNone,
         error |-> PyNone]

\* the field BoundField(schema, data, full_name, name) constructs
RECURSIVE NewField(_, _, _, _)
NewField(schema, data, full_name, name) ==
    LET raw_data == CallValidator(schema.pre_processor, data)
        make_children ==
            IF is_sequence(schema) THEN
                LET fn == full_name \o <<":">>
                    child == schema.children[1]
                IN  IF Truthy(raw_data)
                    THEN [ix \in 1..Len(Elements(raw_data)) |->
                            NewField(child, Elements(raw_data)[ix],
                                     fn \o IntToStr(ix - 1), PyInt(ix - 1))]
                    ELSE <<NewField(child, PyNone, fn \o <<"0">>, PyNone)>>
            ELSE
                LET fn == IF full_name # <<>> THEN full_name \o <<".">> ELSE full_name
                IN  [i \in 1..Len(schema.children) |->
                        LET node == schema.children[i] IN
                        NewField(node,
                                 IF raw_data = PyNone THEN PyNone
                                 ELSE DictGet(raw_data, node.name.s),
                                 fn \o node.name.s, PyNone)]
    IN  [t |-> "field",
         schema |-> schema,
         name |-> IF name # PyNone THEN name ELSE schema.name,
         full_name |-> full_name,
         raw_data |-> raw_data,
         children |-> make_children,
         clean_data |-> PyNone,
         error |-> PyNone]

\* BoundField(schema, data, full_name, name): the field, or the exception
\* that _make_children raised
BoundField(schema, data, full_name, name) ==
    IF MakeError(schema, data) # NoValue THEN MakeError(schema, data)
    ELSE NewField(schema, data, full_name, name)

\* data[name]: the item, or the exception raised
Subscript(data, name) ==
    IF data.t = "dict" THEN
        IF name.t = "str" /\ HasKey(data.items, name.s)
        THEN GetItem(data.items, name.s)
        ELSE Raise("KeyError", "subscript", <<>>)
    ELSE IF data.t = "list" THEN
        IF name.t # "int" THEN Raise("TypeError", "subscript", <<>>)
        ELSE IF name.n < Len(data.elems) THEN data.elems[name.n + 1]
        ELSE Raise("IndexError", "subscript", <<>>)
    ELSE Raise("TypeError", "subscript", <<>>)

\* field._propagate_validation(return_val): the field afterwards and the
\* value returned (ret) or the exception that ended the call (exc)
RECURSIVE propagate_validation(_, _)
propagate_validation(field, return_val) ==
    LET isErr == IsError(return_val)
        f1 == IF isErr
              THEN [field EXCEPT !.error = BindMessage(return_val, field)]
              ELSE [field EXCEPT !.clean_data = return_val]
        data == IF isErr THEN return_val.clean_data ELSE return_val
        ret == PyBool(~isErr)
        RECURSIVE Loop(_, _)
        \* for child in self: child._propagate_validation(data[child.name])
        Loop(f, i) ==
            IF i > Len(f.children) THEN [field |-> f, ret |-> ret]
            ELSE LET item == Subscript(data, f.children[i].name) IN
                 IF IsRaise(item) THEN [field |-> f, ret |-> item]
                 ELSE LET r == propagate_validation(f.children[i], item)
                          f2 == [f EXCEPT !.children[i] = r.field]
                      IN  IF IsRaise(r.ret) THEN [field |-> f2, ret |-> r.ret]
                          ELSE Loop(f2, i + 1)
    IN  IF data = PyNone THEN [field |-> f1, ret |-> ret]
        ELSE Loop(f1, 1)

\* is_valid were it to drop the validator of the field's schema node once the
\* node has validated
is_valid_DropsValidator(field, path) ==
    LET v == validate(field.schema, field.raw_data, path)
        r == propagate_validation(field, v.val)
    IN  [field |-> [r.field EXCEPT !.schema.validator = Fn("noop")],
         ret |-> r.ret, log |-> v.log]

\* field.is_valid(): the field afterwards, what the call returned or raised,
\* and the calls validate made
is_valid(field, path) ==
    LET v == validate(field.schema, field.raw_data, path)
        r == propagate_validation(field, v.val)
    IN  [field |-> r.field, ret |-> r.ret, log |-> v.log]

(***************************************************************************)
(* bind_dotted(schema, data, data2).  data and data2 are mappings given by *)
(* their items in order; data2 may be None.                                *)
(***************************************************************************)
\* the filter of the comprehension, with every value kept that is not falsy
KeepValue_Truthy(val) == Truthy(val)

\* the filter of the comprehension: val != ""
KeepValue(val) == val # PyStr(<<>>)

\* {key: val for key, val in data.items() if val != ""}
RECURSIVE Filtered(_)
Filtered(items) ==
    IF items = <<>> THEN <<>>
    ELSE (IF KeepValue(Head(items)[2]) THEN <<Head(items)>> ELSE <<>>)
         \o Filtered(Tail(items))

\* data.copy(); data.update(data2)
Merged(data, data2) ==
    IF data2 # PyNone THEN DictUpdate(data.items, data2.items, 1) ELSE data.items

\* schema.bind(BoundField, data)
bind(schema, data) == BoundField(schema, data, <<>>, PyNone)

\* bind_dotted were it to catch the error of expand_dots and bind no data
bind_expanded_BindsNone(schema, expanded) ==
    IF IsRaise(expanded) THEN bind(schema, PyNone) ELSE bind(schema, expanded)

\* the rest of bind_dotted once expand_dots returned or raised: the error
\* propagates, else schema.bind(BoundField, data)
bind_expanded(schema, expanded) ==
    IF IsRaise(expanded) THEN expanded ELSE bind(schema, expanded)

\* bind_dotted(schema, data, data2): the BoundField, or the exception raised
bind_dotted(schema, data, data2) ==
    bind_expanded(schema, expand_dots(Filtered(Merged(data, data2))))

(***************************************************************************)
(* SpecExpand: a client builds a flat mapping item by item and calls       *)
(* expand_dots on it.                                                      *)
(***************************************************************************)
MaxItems == 3

\* the keys a client may use: one to three segments, the second being a
\* field name, an index (9 and 10 among them) or empty
Frags == {<<"b">>, <<"0">>, <<"9">>, <<"1", "0">>, <<>>}
KeyPool ==
    {<<"a">>, <<"b">>, <<"b", ".", "c">>, <<"b", ":", "0">>}
    \cup {<<"a">> \o <<d>> \o f : d \in {".", ":"}, f \in Frags}
    \cup {<<"a">> \o <<d>> \o f \o <<e>> \o g :
            d \in {".", ":"}, e \in {".", ":"},
            f \in {<<"b">>, <<"0">>}, g \in {<<"c">>, <<"0">>}}

\* the value stored by the n-th assignment
ValueNo(n) == PyStr(<<"v", Digits[n + 1]>>)

FormIdle ==
    /\ form_literal = NoValue /\ form_schema = NoValue /\ form_data = NoValue
    /\ form = NoValue /\ result = NoValue /\ calls = <<>> /\ ncalls = 0
    /\ dotted2 = NoValue
    /\ form_data2 = NoValue /\ form2 = NoValue
    /\ heap = <<>> /\ given = NoValue /\ map_schema = NoValue
    /\ chain_data = NoValue
    /\ objects = <<>> /\ created = 0 /\ cache_data = <<>>
    /\ assigned = <<>> /\ invocations = <<>>

InitExpand ==
    /\ FormIdle
    /\ nested = NoValue
    /\ flat = <<>>
    /\ out = NoValue
    /\ pc = "build"

\* base_dict[key] = value
SetFlatItem(key) ==
    /\ pc = "build"
    /\ Len(flat) < MaxItems
    /\ ~HasKey(flat, key)
    /\ flat' = SetItem(flat, key, ValueNo(Len(flat) + 1))
    /\ UNCHANGED <<nested, out, pc, formVars>>

CallExpandDots ==
    /\ pc = "build"
    /\ out' = expand_dots(flat)
    /\ pc' = "done"
    /\ UNCHANGED <<nested, flat, formVars>>

NextExpand ==
    \/ \E key \in KeyPool : SetFlatItem(key)
    \/ CallExpandDots

SpecExpand == InitExpand /\ [][NextExpand]_vars

(***************************************************************************)
(* What a flat mapping holds, read off its keys alone.                     *)
(***************************************************************************)
FlatKey(i) == flat[i][1]

MaxKeyLen == CHOOSE n \in 0..20 : \A k \in KeyPool : Len(k) <= n /\ \E k2 \in KeyPool : Len(k2) = n

IsPrefix(p, k) == Len(p) <= Len(k) /\ SubSeq(k, 1, Len(p)) = p

\* the first n characters of k are whole segments followed by a delimiter
CutBy(k, n, d) == n < Len(k) /\ k[n + 1] = d

\* the last segment of k
LastSeg(k) ==
    LET ds == {n \in 1..Len(k) : IsDelim(k[n])}
        from == IF ds = {} THEN 1 ELSE 1 + CHOOSE n \in ds : \A m \in ds : m <= n
    IN  SubSeq(k, from, Len(k))

\* key i is, at its level, a delimiter-free key, and the head of key j
NakedParentPair(i, j) ==
    /\ i # j
    /\ IsPrefix(FlatKey(i), FlatKey(j))
    /\ (CutBy(FlatKey(j), Len(FlatKey(i)), ".") \/ CutBy(FlatKey(j), Len(FlatKey(i)), ":"))

NakedParentConflict == \E i, j \in 1..Len(flat) : NakedParentPair(i, j)

NakedParentHeads ==
    {LastSeg(FlatKey(i)) : i \in {x \in 1..Len(flat) : \E j \in 1..Len(flat) : NakedParentPair(x, j)}}

\* keys i and j share the first n characters, a head at their level, which
\* '.' follows in key i and ':' in key j
DictListPair(i, j, n) ==
    /\ n < Len(FlatKey(i)) /\ n < Len(FlatKey(j))
    /\ SubSeq(FlatKey(i), 1, n) = SubSeq(FlatKey(j), 1, n)
    /\ CutBy(FlatKey(i), n, ".")
    /\ CutBy(FlatKey(j), n, ":")

DictListConflict ==
    \E i, j \in 1..Len(flat) : \E n \in 0..Len(FlatKey(i)) : DictListPair(i, j, n)

DictListHeads ==
    {LastSeg(SubSeq(FlatKey(i), 1, n)) :
        <<i, n>> \in {x \in (1..Len(flat)) \X (0..MaxKeyLen) :
                        \E j \in 1..Len(flat) : DictListPair(x[1], j, x[2])}}

\* C4: a head that is both a delimiter-free key and the prefix of another
\* key, at any level and in any order of the keys, makes expand_dots raise
\* ValueError "<head> specified as both naked and parent key".
C4_NakedParentRaises ==
    (pc = "done" /\ NakedParentConflict) =>
        (IsRaise(out) /\ out.exc = "ValueError" /\ out.kind = "naked_parent")

\* C4 as amended: ValueError is raised and nothing returned; the message is
\* the naked/parent one, for a head in that conflict, unless some head is
\* also used as both dict and list, when it may be the dict/list one.
C4_NakedParentOrDictList ==
    (pc = "done" /\ NakedParentConflict) =>
        /\ IsRaise(out)
        /\ out.exc = "ValueError"
        /\ \/ out.kind = "naked_parent" /\ out.head \in NakedParentHeads
           \/ out.kind = "dict_list" /\ DictListConflict

\* the conflict one level down, the parent key iterated last
C4_Witness ==
    /\ pc = "done"
    /\ Len(flat) = 2
    /\ NakedParentPair(2, 1)
    /\ Len(FlatKey(2)) > 1
    /\ IsRaise(out) /\ out.kind = "naked_parent" /\ out.head = LastSeg(FlatKey(2))

\* C5: a head followed by '.' in one key and by ':' in another, at any
\* level and whichever comes first, makes expand_dots raise ValueError
\* "<head> specified as both dict and list".
C5_DictListRaises ==
    (pc = "done" /\ DictListConflict) =>
        (IsRaise(out) /\ out.exc = "ValueError" /\ out.kind = "dict_list")

\* C5 as amended: ValueError is raised; the message is the dict/list one,
\* for a head in that conflict, unless some head is also both a naked and
\* a parent key, when it may be the naked/parent one.
C5_DictListOrNakedParent ==
    (pc = "done" /\ DictListConflict) =>
        /\ IsRaise(out)
        /\ out.exc = "ValueError"
        /\ \/ out.kind = "dict_list" /\ out.head \in DictListHeads
           \/ out.kind = "naked_parent" /\ NakedParentConflict

\* the conflict one level down, the ':' key iterated first
C5_Witness ==
    /\ pc = "done"
    /\ Len(flat) = 2
    /\ DictListPair(2, 1, 3)
    /\ IsRaise(out) /\ out.kind = "dict_list" /\ out.head = <<FlatKey(1)[3]>>

\* the prefixes a ':' follows in some key
ColonedPrefixes ==
    {SubSeq(FlatKey(x[1]), 1, x[2] - 1) :
        x \in {y \in (1..Len(flat)) \X (1..MaxKeyLen) :
                 y[2] <= Len(FlatKey(y[1])) /\ FlatKey(y[1])[y[2]] = ":"}}

\* where the segment of k that starts at position from ends
SegEnd(k, from) ==
    CHOOSE e \in (from - 1)..Len(k) :
        /\ \A m \in from..e : ~IsDelim(k[m])
        /\ e = Len(k) \/ IsDelim(k[e + 1])

\* key i lies under the sequence at prefix P, in the element named FragOf
Under(P, i) == IsPrefix(P \o <<":">>, FlatKey(i))

FragOf(P, k) == SubSeq(k, Len(P) + 2, SegEnd(k, Len(P) + 2))

FragsUnder(P) == {FragOf(P, FlatKey(i)) : i \in {x \in 1..Len(flat) : Under(P, x)}}

\* the values stored under index fragment f of the sequence at P
Group(P, f) ==
    {flat[i][2] : i \in {x \in 1..Len(flat) : Under(P, x) /\ FragOf(P, FlatKey(x)) = f}}

RECURSIVE LeafSet(_)
LeafSet(v) ==
    IF v.t = "dict" THEN UNION {LeafSet(v.items[i][2]) : i \in 1..Len(v.items)}
    ELSE IF v.t = "list" THEN UNION {LeafSet(v.elems[i]) : i \in 1..Len(v.elems)}
    ELSE {v}

RECURSIVE AllLists(_)
AllLists(v) ==
    IF v.t = "dict" THEN UNION {AllLists(v.items[i][2]) : i \in 1..Len(v.items)}
    ELSE IF v.t = "list" THEN {v} \cup UNION {AllLists(v.elems[i]) : i \in 1..Len(v.elems)}
    ELSE {}

\* list L is the sequence decoded for prefix P: one element per index
\* fragment, the element of a smaller integer first, a fragment that is a
\* whole key giving its value as the element
DecodesPrefix(L, P) ==
    /\ Len(L.elems) = Cardinality(FragsUnder(P))
    /\ \A f \in FragsUnder(P) : \E i \in 1..Len(L.elems) :
          /\ LeafSet(L.elems[i]) = Group(P, f)
          /\ (\E x \in 1..Len(flat) : FlatKey(x) = P \o <<":">> \o f /\ L.elems[i] # flat[x][2])
                => FALSE
    /\ \A i, j \in 1..Len(L.elems) : \A f, g \in FragsUnder(P) :
          (i < j /\ LeafSet(L.elems[i]) = Group(P, f) /\ LeafSet(L.elems[j]) = Group(P, g))
              => ParseInt(f) <= ParseInt(g)

\* C6: the sequence decoded for a coloned prefix has exactly one element
\* per index fragment under the prefix, ascending by the fragments' integer
\* values (10 after 9), without holes for the gaps.
C6_SequenceByIntOrder ==
    (pc = "done" /\ ~IsRaise(out)) =>
        \A P \in ColonedPrefixes : \E L \in AllLists(out) : DecodesPrefix(L, P)

\* indexes 10 and 9 given in that order, a gap between them and a third
C6_Witness ==
    /\ pc = "done"
    /\ ~IsRaise(out)
    /\ Len(flat) = 3
    /\ \A i \in 1..3 : Under(<<"a">>, i)
    /\ FragOf(<<"a">>, FlatKey(1)) = <<"1", "0">>
    /\ FragOf(<<"a">>, FlatKey(2)) = <<"9">>
    /\ FragOf(<<"a">>, FlatKey(3)) = <<"0">>
    /\ GetItem(out.items, <<"a">>).elems[2] = flat[2][2]
    /\ GetItem(out.items, <<"a">>).elems[3] = flat[1][2]

\* f is written as a base-10 integer: one or more digits
Base10Literal(f) == f # <<>> /\ \A i \in 1..Len(f) : f[i] \in {Digits[d] : d \in 1..10}

HasBadFragment == \E P \in ColonedPrefixes : \E f \in FragsUnder(P) : ~Base10Literal(f)

\* C7: an index fragment after ':' that is no base-10 integer literal (the
\* empty fragment included), at any level, makes expand_dots raise; nothing
\* is returned.
C7_BadIndexRaises == (pc = "done" /\ HasBadFragment) => IsRaise(out)

\* an empty fragment, and a fragment that is a name, one level down
C7_Witness ==
    /\ pc = "done"
    /\ out = BadInt(<<>>)
    /\ \E i \in 1..Len(flat) : FlatKey(i) = <<"a", ":">>
    /\ \E i \in 1..Len(flat) :
          Len(FlatKey(i)) = 5 /\ Under(<<"a">>, i) /\ FragOf(<<"a">>, FlatKey(i)) = <<"b">>

\* the leaves of v, in the order of its items and elements
RECURSIVE Leaves(_)
Leaves(v) ==
    LET RECURSIVE Cat(_, _)
        Cat(f, i) == IF i = 0 THEN <<>> ELSE Cat(f, i - 1) \o f[i]
    IN  IF v.t = "dict"
        THEN Cat([i \in 1..Len(v.items) |-> Leaves(v.items[i][2])], Len(v.items))
        ELSE IF v.t = "list"
        THEN Cat([i \in 1..Len(v.elems) |-> Leaves(v.elems[i])], Len(v.elems))
        ELSE <<v>>

\* how many times x occurs in the sequence s
Occurrences(s, x) == Cardinality({i \in 1..Len(s) : s[i] = x})

\* the mappings and sequences below the root of v
RECURSIVE Containers(_)
Containers(v) ==
    LET subs == IF v.t = "dict" THEN {v.items[i][2] : i \in 1..Len(v.items)}
                ELSE IF v.t = "list" THEN {v.elems[i] : i \in 1..Len(v.elems)}
                ELSE {}
    IN  {c \in subs : c.t \in {"dict", "list"}} \cup UNION {Containers(c) : c \in subs}

IsEmptyContainer(c) ==
    IF c.t = "dict" THEN c.items = <<>> ELSE c.elems = <<>>

FlatValues == [i \in 1..Len(flat) |-> flat[i][2]]

\* C28: whenever expand_dots returns, the result has as many scalar leaves
\* as the flat mapping has keys, every value occurs among the leaves as
\* often as among the values of the flat mapping (no entry lost,
\* duplicated or merged), and every mapping and sequence below the root of
\* the result is non-empty.
C28_LeavesAreTheValues ==
    (pc = "done" /\ ~IsRaise(out)) =>
        /\ Len(Leaves(out)) = Len(flat)
        /\ \A i \in 1..Len(flat) :
              Occurrences(Leaves(out), flat[i][2]) = Occurrences(FlatValues, flat[i][2])
        /\ \A c \in Containers(out) : ~IsEmptyContainer(c)

\* three keys under one head: two of them under the same index of a
\* sequence, in a mapping that is an element of it
C28_Witness ==
    /\ pc = "done"
    /\ ~IsRaise(out)
    /\ Len(flat) = 3
    /\ Len(out.items) = 1
    /\ \E L \in AllLists(out) :
          /\ Len(L.elems) = 2
          /\ \E e \in 1..2 : L.elems[e].t = "dict" /\ Len(L.elems[e].items) = 2

(***************************************************************************)
(* SpecOrder: a client builds a flat mapping, builds a second mapping with *)
(* the same items in another iteration order (dotted2), and calls          *)
(* expand_dots on both: out is the result for flat, nested the result for  *)
(* dotted2.  The keys include index fragments that differ as text and are  *)
(* equal as integers (0 and 00).                                           *)
(***************************************************************************)
OrderKeyPool ==
    {<<"a">>, <<"b">>, <<"a", ".", "b">>,
     <<"a", ":", "0">>, <<"a", ":", "0", "0">>, <<"a", ":", "1">>,
     <<"a", ":", "9">>, <<"a", ":", "1", "0">>, <<"a", ":", "b">>,
     <<"a", ":", "0", ".", "b">>, <<"a", ":", "0", "0", ".", "b">>,
     <<"a", ":", "0", ".", "c">>}

\* the iteration orders of a mapping of n items
Orders(n) == {p \in [1..n -> 1..n] : \A i, j \in 1..n : p[i] = p[j] => i = j}

InitOrder ==
    /\ FormIdle
    /\ nested = NoValue
    /\ flat = <<>>
    /\ out = NoValue
    /\ pc = "build"

\* OrderedDict(base_dict[k] for k in the order p)
Reorder(p) ==
    /\ pc = "build"
    /\ flat # <<>>
    /\ dotted2' = [i \in 1..Len(flat) |-> flat[p[i]]]
    /\ pc' = "reordered"
    /\ UNCHANGED <<expandVars, form_literal, form_schema, form_data, form,
                   result, calls, ncalls, shareVars, aliasVars, chainVars, cacheVars>>

\* expand_dots(d1); expand_dots(d2)
ExpandBoth ==
    /\ pc = "reordered"
    /\ out' = expand_dots(flat)
    /\ nested' = expand_dots(dotted2)
    /\ pc' = "done"
    /\ UNCHANGED <<flat, formVars>>

NextOrder ==
    \/ \E key \in OrderKeyPool : SetFlatItem(key)
    \/ \E p \in Orders(Len(flat)) : Reorder(p)
    \/ ExpandBoth

SpecOrder == InitOrder /\ [][NextOrder]_vars

\* no two index fragments under one prefix are equal as integers
DistinctIndices ==
    \A P \in ColonedPrefixes : \A f, g \in FragsUnder(P) :
        (f # g /\ IsIntLiteral(f) /\ IsIntLiteral(g)) => ParseInt(f) # ParseInt(g)

\* C29: for two flat mappings with the same items in different iteration
\* orders, no two index fragments under one prefix being equal as
\* integers, expand_dots raises for both or returns equal structures.
C29_OrderIndependent ==
    (pc = "done" /\ DistinctIndices) =>
        /\ IsRaise(out) <=> IsRaise(nested)
        /\ ~IsRaise(out) => PyEq(out, nested)

\* indexes 10, 9 and 1 of one sequence, iterated in that order and in the
\* reverse order
C29_Witness ==
    /\ pc = "done"
    /\ Len(flat) = 3
    /\ FlatKey(1) = <<"a", ":", "1", "0">>
    /\ FlatKey(2) = <<"a", ":", "9">>
    /\ FlatKey(3) = <<"a", ":", "1">>
    /\ dotted2 = <<flat[3], flat[2], flat[1]>>
    /\ ~IsRaise(out)
    /\ out = nested
    /\ GetItem(out.items, <<"a">>).elems = <<flat[3][2], flat[2][2], flat[1][2]>>

\* a naked key and the same head as a parent, in either order: both raise
C29_WitnessRaise ==
    /\ pc = "done"
    /\ Len(flat) = 2
    /\ FlatKey(1) = <<"a">>
    /\ FlatKey(2) = <<"a", ".", "b">>
    /\ dotted2 = <<flat[2], flat[1]>>
    /\ IsRaise(out) /\ IsRaise(nested)

(***************************************************************************)
(* SpecRound: a client grows a nested value (non-empty mappings and        *)
(* sequences, scalar leaves), flattens it to '.'/':' keys and expands it.  *)
(***************************************************************************)
MaxNodes == 5

FieldNames == {<<"a">>, <<"0">>}

IsScalar(v) == v.t \in {"none", "str", "int"}

\* the mappings, sequences and leaves of v
RECURSIVE CountNodes(_)
CountNodes(v) ==
    LET RECURSIVE Sum(_, _)
        Sum(f, i) == IF i = 0 THEN 0 ELSE CountNodes(f[i]) + Sum(f, i - 1)
    IN  IF v.t = "dict"
        THEN 1 + Sum([i \in 1..Len(v.items) |-> v.items[i][2]], Len(v.items))
        ELSE IF v.t = "list" THEN 1 + Sum(v.elems, Len(v.elems))
        ELSE 1

\* the values one node larger than v: a leaf wrapped in a one-element
\* mapping or sequence, or the leaf s added to a mapping or sequence
RECURSIVE Grown(_, _)
Grown(v, s) ==
    IF v.t = "dict" THEN
        {PyDict(Append(v.items, <<k, s>>)) : k \in {n \in FieldNames : ~HasKey(v.items, n)}}
        \cup UNION {{PyDict([v.items EXCEPT ![i] = <<v.items[i][1], g>>]) :
                        g \in Grown(v.items[i][2], s)} : i \in 1..Len(v.items)}
    ELSE IF v.t = "list" THEN
        {PyList(Append(v.elems, s))}
        \cup UNION {{PyList([v.elems EXCEPT ![i] = g]) :
                        g \in Grown(v.elems[i], s)} : i \in 1..Len(v.elems)}
    ELSE {PyDict(<<<<k, v>>>>) : k \in FieldNames} \cup {PyList(<<v>>)}

\* the flat items of value v found under the key prefix
RECURSIVE FlattenUnder(_, _)
FlattenUnder(prefix, v) ==
    LET RECURSIVE Cat(_, _)
        Cat(f, i) == IF i = 0 THEN <<>> ELSE Cat(f, i - 1) \o f[i]
    IN  IF v.t = "dict" THEN
            Cat([i \in 1..Len(v.items) |->
                    FlattenUnder(prefix \o <<".">> \o v.items[i][1], v.items[i][2])],
                Len(v.items))
        ELSE IF v.t = "list" THEN
            Cat([i \in 1..Len(v.elems) |->
                    FlattenUnder(prefix \o <<":">> \o IntToStr(i - 1), v.elems[i])],
                Len(v.elems))
        ELSE <<<<prefix, v>>>>

Flatten(root) ==
    LET RECURSIVE Cat(_, _)
        Cat(f, i) == IF i = 0 THEN <<>> ELSE Cat(f, i - 1) \o f[i]
    IN  Cat([i \in 1..Len(root.items) |->
                FlattenUnder(root.items[i][1], root.items[i][2])], Len(root.items))

\* a sequence long enough for index 10 to follow index 9
LongList == PyDict(<<<<<<"a">>, PyList([i \in 1..11 |-> PyInt(i)])>>>>)

InitRound ==
    /\ FormIdle
    /\ nested \in {PyDict(<<>>), LongList}
    /\ flat = <<>>
    /\ out = NoValue
    /\ pc = "build"

Grow ==
    /\ pc = "build"
    /\ CountNodes(nested) <= MaxNodes
    /\ \E g \in Grown(nested, ValueNo(CountNodes(nested))) : nested' = g
    /\ UNCHANGED <<flat, out, pc, formVars>>

RoundTrip ==
    /\ pc = "build"
    /\ nested.items # <<>>
    /\ flat' = Flatten(nested)
    /\ out' = expand_dots(flat')
    /\ pc' = "done"
    /\ UNCHANGED <<nested, formVars>>

NextRound == Grow \/ RoundTrip

SpecRound == InitRound /\ [][NextRound]_vars

\* C3: flattening a nested value (non-empty mappings and sequences, scalar
\* leaves, delimiter-free keys) and expanding the flat mapping gives back a
\* value equal to the original.
C3_RoundTrip == pc = "done" => (~IsRaise(out) /\ PyEq(out, nested))

\* a round trip through a mapping inside a sequence, and one through a
\* sequence of more than ten elements
C3_Witness ==
    /\ pc = "done"
    /\ PyEq(out, nested)
    /\ \E i \in 1..Len(flat) :
          \E j, k \in 1..Len(flat[i][1]) :
              j < k /\ flat[i][1][j] = ":" /\ flat[i][1][k] = "."

(***************************************************************************)
(* SpecForm: a client writes a schema literal, makes the schema, may       *)
(* replace the validator of a map or sequence node, binds data of the      *)
(* schema's shape and calls is_valid on the root or on a sub-field.        *)
(***************************************************************************)
MaxSchemaNodes == 4
MaxDataNodes == 3
MaxCalls == 2

SchemaNames == <<<<"a">>, <<"b">>>>
LeafValidators == {Fn("noop"), Fn("not_none")}
DataScalar == PyStr(<<"x">>)
ExtraKey == <<"z">>

\* the keys of names not in items that may be added next: names are added
\* in their order, so that a mapping is built once
NextKeys(items, names) ==
    {names[i] : i \in {x \in 1..Len(names) :
                        \A y \in x..Len(names) : ~HasKey(items, names[y])}}

\* the literals one node larger than v
RECURSIVE GrownLiteral(_)
GrownLiteral(v) ==
    IF v.t = "dict" THEN
        {PyDict(Append(v.items, <<k, f>>)) :
            k \in NextKeys(v.items, SchemaNames), f \in LeafValidators}
        \cup UNION {{PyDict([v.items EXCEPT ![i] = <<v.items[i][1], g>>]) :
                        g \in GrownLiteral(v.items[i][2])} : i \in 1..Len(v.items)}
    ELSE IF v.t = "list" THEN
        {PyList(<<g>>) : g \in GrownLiteral(v.elems[1])}
    ELSE {PyDict(<<<<SchemaNames[1], v>>>>), PyList(<<v>>)}

\* data of the schema's shape, one node larger than d
RECURSIVE GrownData(_, _)
GrownData(sch, d) ==
    IF sch.cls = "LeafSchema" THEN
        IF d = PyNone THEN {DataScalar} ELSE {}
    ELSE IF sch.cls = "SequenceSchema" THEN
        IF d = PyNone THEN {PyList(<<>>)}
        ELSE {PyList(Append(d.elems, PyNone))}
             \cup UNION {{PyList([d.elems EXCEPT ![i] = g]) :
                            g \in GrownData(sch.children[1], d.elems[i])} :
                         i \in 1..Len(d.elems)}
    ELSE
        IF d = PyNone THEN {PyDict(<<>>)}
        ELSE {PyDict(Append(d.items, <<k, PyNone>>)) :
                k \in NextKeys(d.items, sch.keys \o <<ExtraKey>>)}
             \cup UNION {{PyDict(SetItem(d.items, sch.keys[i], g)) :
                            g \in GrownData(sch.children[i], GetItem(d.items, sch.keys[i]))} :
                         i \in {x \in 1..Len(sch.keys) : HasKey(d.items, sch.keys[x])}}
             \cup {PyDict(SetItem(d.items, ExtraKey, DataScalar)) :
                     x \in {y \in {1} : /\ HasKey(d.items, ExtraKey)
                                        /\ GetItem(d.items, ExtraKey) = PyNone}}

\* fields, by the positions of the children leading to them
RECURSIVE FieldPaths(_)
FieldPaths(f) ==
    {<<>>} \cup UNION {{<<i>> \o q : q \in FieldPaths(f.children[i])} :
                        i \in 1..Len(f.children)}

RECURSIVE FieldAt(_, _)
FieldAt(f, path) ==
    IF path = <<>> THEN f ELSE FieldAt(f.children[Head(path)], Tail(path))

RECURSIVE WithField(_, _, _)
WithField(f, path, new) ==
    IF path = <<>> THEN new
    ELSE [f EXCEPT !.children[Head(path)] = WithField(@, Tail(path), new)]

ExpandIdle ==
    /\ nested = NoValue /\ flat = <<>> /\ out = NoValue /\ dotted2 = NoValue
    /\ form_data2 = NoValue /\ form2 = NoValue
    /\ heap = <<>> /\ given = NoValue /\ map_schema = NoValue
    /\ chain_data = NoValue
    /\ objects = <<>> /\ created = 0 /\ cache_data = <<>>
    /\ assigned = <<>> /\ invocations = <<>>

InitForm ==
    /\ ExpandIdle
    /\ form_literal \in LeafValidators
    /\ form_schema = NoValue /\ form_data = NoValue /\ form = NoValue
    /\ result = NoValue /\ calls = <<>> /\ ncalls = 0
    /\ pc = "literal"

GrowLiteral ==
    /\ pc = "literal"
    /\ CountNodes(form_literal) < MaxSchemaNodes
    /\ \E g \in GrownLiteral(form_literal) : form_literal' = g
    /\ UNCHANGED <<expandVars, dotted2, shareVars, aliasVars, chainVars, cacheVars, form_schema, form_data, form, result, calls, ncalls, pc>>

\* schema = make_from_literal(literal)
MakeFromLiteral ==
    /\ pc = "literal"
    /\ form_schema' = make_from_literal(form_literal, PyStr(<<>>))
    /\ form_data' = PyNone
    /\ pc' = "schema"
    /\ UNCHANGED <<expandVars, dotted2, shareVars, aliasVars, chainVars, cacheVars, form_literal, form, result, calls, ncalls>>

\* schema.validator = noop, for a map or sequence schema
SetValidator ==
    /\ pc = "schema"
    /\ form_data = PyNone
    /\ form_schema.validator = Fn("all_children")
    /\ form_schema' = [form_schema EXCEPT !.validator = Fn("noop")]
    /\ UNCHANGED <<expandVars, dotted2, shareVars, aliasVars, chainVars, cacheVars, form_literal, form_data, form, result, calls, ncalls, pc>>

\* the leaves of a schema, by the positions of the children leading to them
RECURSIVE LeafPaths(_)
LeafPaths(sch) ==
    IF sch.children = <<>> THEN {<<>>}
    ELSE UNION {{<<i>> \o q : q \in LeafPaths(sch.children[i])} :
                i \in 1..Len(sch.children)}

RECURSIVE SchemaAt(_, _)
SchemaAt(sch, path) ==
    IF path = <<>> THEN sch ELSE SchemaAt(sch.children[Head(path)], Tail(path))

RECURSIVE WithPreProcessor(_, _, _)
WithPreProcessor(sch, path, f) ==
    IF path = <<>> THEN [sch EXCEPT !.pre_processor = f]
    ELSE [sch EXCEPT !.children[Head(path)] = WithPreProcessor(@, Tail(path), f)]

\* leaf.pre_processor = with_default, for one leaf of the schema
SetPreProcessor ==
    /\ pc = "schema"
    /\ form_data = PyNone
    /\ \A path \in LeafPaths(form_schema) :
          SchemaAt(form_schema, path).pre_processor = Fn("noop")
    /\ \E path \in LeafPaths(form_schema) :
          form_schema' = WithPreProcessor(form_schema, path, Fn("with_default"))
    /\ UNCHANGED <<expandVars, dotted2, shareVars, aliasVars, chainVars, cacheVars, form_literal, form_data, form, result, calls, ncalls, pc>>

GrowData ==
    /\ pc = "schema"
    /\ CountNodes(form_data) < MaxDataNodes
    /\ \E g \in GrownData(form_schema, form_data) : form_data' = g
    /\ UNCHANGED <<expandVars, dotted2, shareVars, aliasVars, chainVars, cacheVars, form_literal, form_schema, form, result, calls, ncalls, pc>>

\* form = BoundField(schema, data)
Bind ==
    /\ pc = "schema"
    /\ form' = BoundField(form_schema, form_data, <<>>, PyNone)
    /\ pc' = "bound"
    /\ UNCHANGED <<expandVars, dotted2, shareVars, aliasVars, chainVars, cacheVars, form_literal, form_schema, form_data, result, calls, ncalls>>

\* the field at path .is_valid()
IsValid ==
    /\ pc = "bound"
    /\ ncalls < MaxCalls
    /\ ncalls' = ncalls + 1
    /\ \E path \in FieldPaths(form) :
        LET r == is_valid(FieldAt(form, path), <<>>) IN
        /\ form' = WithField(form, path, r.field)
        /\ result' = [path |-> path, val |-> r.ret]
        /\ calls' = r.log
    /\ pc' = "bound"
    /\ UNCHANGED <<expandVars, dotted2, shareVars, aliasVars, chainVars, cacheVars, form_literal, form_schema, form_data>>

NextForm ==
    \/ GrowLiteral
    \/ MakeFromLiteral
    \/ SetValidator
    \/ SetPreProcessor
    \/ GrowData
    \/ Bind
    \/ IsValid

SpecForm == InitForm /\ [][NextForm]_vars

(***************************************************************************)
(* Properties of is_valid (SpecForm).                                      *)
(***************************************************************************)
\* an is_valid call has been made; Called is the field it was made on
AfterCall == pc = "bound" /\ ncalls >= 1
Called == FieldAt(form, result.path)
RootCalledOnce == pc = "bound" /\ ncalls = 1 /\ result.path = <<>>

RECURSIVE AllNoop(_)
AllNoop(lit) ==
    IF lit.t = "dict" THEN \A i \in 1..Len(lit.items) : AllNoop(lit.items[i][2])
    ELSE IF lit.t = "list" THEN \A i \in 1..Len(lit.elems) : AllNoop(lit.elems[i])
    ELSE lit = Fn("noop")

\* the data has the schema's shape: no key the schema does not name
RECURSIVE WellShaped(_, _)
WellShaped(sch, d) ==
    IF d = PyNone THEN TRUE
    ELSE IF sch.cls = "MapSchema" THEN
        /\ d.t = "dict"
        /\ \A i \in 1..Len(d.items) :
              \E j \in 1..Len(sch.keys) :
                 /\ sch.keys[j] = d.items[i][1]
                 /\ WellShaped(sch.children[j], d.items[i][2])
    ELSE IF sch.cls = "SequenceSchema" THEN
        /\ d.t = "list"
        /\ \A i \in 1..Len(d.elems) : WellShaped(sch.children[1], d.elems[i])
    ELSE IsScalar(d)

\* the input structure, absent map fields written None and absent
\* sequences written []
RECURSIVE Completed(_, _)
Completed(sch, d) ==
    IF sch.cls = "MapSchema" THEN
        PyDict([j \in 1..Len(sch.keys) |->
                  <<sch.keys[j],
                    Completed(sch.children[j],
                              IF d # PyNone /\ HasKey(d.items, sch.keys[j])
                              THEN GetItem(d.items, sch.keys[j]) ELSE PyNone)>>])
    ELSE IF sch.cls = "SequenceSchema" THEN
        IF d = PyNone THEN PyList(<<>>)
        ELSE PyList([i \in 1..Len(d.elems) |-> Completed(sch.children[1], d.elems[i])])
    ELSE d

\* C1: for a schema made from a literal whose leaves are all noop and data of
\* the schema's shape (absent map fields, absent and empty sequences
\* included), the root's is_valid() returns True and the root's clean_data is
\* the input with absent map fields as None and absent sequences as [].
C1_NoopSchemaValid ==
    (/\ RootCalledOnce
     /\ AllNoop(form_literal)
     /\ form_schema = make_from_literal(form_literal, PyStr(<<>>))
     /\ WellShaped(form_schema, form_data))
    => /\ result.val = PyBool(TRUE)
       /\ PyEq(form.clean_data, Completed(form_schema, form_data))

\* C2: is_valid() returns a boolean and raises no exception, whatever the
\* schema and the data, sequence fields bound to no data included.
C2_IsValidNeverRaises ==
    AfterCall => result.val.t = "bool"

\* what validate of the called field's i-th child returned
ChildResult(i) ==
    LET p == <<PyStr(Called.schema.keys[i])>>
        k == CHOOSE k \in 1..Len(calls) : calls[k].ev = "return" /\ calls[k].path = p
    IN  calls[k].val

\* C9: for a map field whose validator is all_children, when some child's
\* validation result is a failure marker, is_valid() returned False, the
\* map field's error is set, every failing child has its error set and every
\* other child has its clean_data set to its validated value.
C9_AllChildrenFailure ==
    (/\ pc = "bound" /\ ncalls = 1
     /\ Called.schema.cls = "MapSchema"
     /\ Called.schema.validator = Fn("all_children")
     /\ \E i \in 1..Len(Called.children) : IsError(ChildResult(i)))
    => /\ result.val = PyBool(FALSE)
       /\ Called.error # PyNone
       /\ \A i \in 1..Len(Called.children) :
             IF IsError(ChildResult(i))
             THEN Called.children[i].error # PyNone
             ELSE Called.children[i].clean_data = ChildResult(i)

\* the map and sequence nodes validate visits below (sch, d), each with the
\* path leading to it and the steps to its children
RECURSIVE Parents(_, _, _)
Parents(sch, d, path) ==
    IF sch.cls = "MapSchema" THEN
        {[path |-> path, steps |-> {PyStr(sch.keys[j]) : j \in 1..Len(sch.keys)}]}
        \cup UNION {Parents(sch.children[j],
                            IF d # PyNone /\ HasKey(d.items, sch.keys[j])
                            THEN GetItem(d.items, sch.keys[j]) ELSE PyNone,
                            Append(path, PyStr(sch.keys[j]))) : j \in 1..Len(sch.keys)}
    ELSE IF sch.cls = "SequenceSchema" THEN
        LET n == IF d = PyNone THEN 0 ELSE Len(d.elems) IN
        {[path |-> path, steps |-> {PyInt(i - 1) : i \in 1..n}]}
        \cup UNION {Parents(sch.children[1], d.elems[i], Append(path, PyInt(i - 1))) :
                    i \in 1..n}
    ELSE {}

\* C10: during validate() the validator of a map or sequence node is invoked
\* only after validate() of each of its children (each element, for a
\* sequence) has returned, at every depth.
C10_ValidatorAfterChildren ==
    AfterCall =>
        \A node \in Parents(Called.schema, Called.raw_data, <<>>) :
            \A j \in 1..Len(calls) :
                (calls[j].ev = "validator" /\ calls[j].path = node.path) =>
                    \A step \in node.steps :
                        \E k \in 1..(j - 1) :
                            /\ calls[k].ev = "return"
                            /\ calls[k].path = Append(node.path, step)

\* a validator ran at a nested map or sequence node that has children, one
\* of which returned a failure marker
C10_Witness ==
    /\ AfterCall
    /\ \E node \in Parents(Called.schema, Called.raw_data, <<>>) :
          /\ node.path # <<>>
          /\ node.steps # {}
          /\ \E j, k \in 1..Len(calls) :
                /\ calls[j].ev = "validator" /\ calls[j].path = node.path
                /\ calls[k].ev = "return" /\ IsError(calls[k].val)
                /\ \E step \in node.steps : calls[k].path = Append(node.path, step)

\* the events of one kind that validate recorded at path
EventsAt(ev, path) ==
    {k \in 1..Len(calls) : calls[k].ev = ev /\ calls[k].path = path}

\* the only event of its kind at path
TheEvent(ev, path) == calls[CHOOSE k \in EventsAt(ev, path) : TRUE]

\* the entry of a collection at a step (a key or an index), NoValue if none
EntryAt(coll, step) ==
    IF coll.t = "dict" /\ step.t = "str" /\ HasKey(coll.items, step.s)
    THEN GetItem(coll.items, step.s)
    ELSE IF coll.t = "list" /\ step.t = "int" /\ step.n < Len(coll.elems)
    THEN coll.elems[step.n + 1]
    ELSE NoValue

\* the schema node a path of steps leads to
RECURSIVE SchemaBelow(_, _)
SchemaBelow(sch, path) ==
    IF path = <<>> THEN sch
    ELSE IF sch.cls = "SequenceSchema" THEN SchemaBelow(sch.children[1], Tail(path))
    ELSE SchemaBelow(sch.children[CHOOSE j \in 1..Len(sch.keys) :
                                      sch.keys[j] = Head(path).s], Tail(path))

\* C11: within one validate() call every child of a map node and every
\* element of a sequence is validated exactly once, failing siblings or
\* not; what each child returned, failure markers included, stands at its
\* own key or index of the collection handed to the parent's validator; and
\* the parent fails exactly when its own validator fails on that collection
\* (noop never does, all_children does when an entry is a failure marker).
C11_EveryChildValidatedOnce ==
    AfterCall =>
        \A node \in Parents(Called.schema, Called.raw_data, <<>>) :
            LET arg == TheEvent("validator", node.path).val
                ret == TheEvent("return", node.path).val
                own == SchemaBelow(Called.schema, node.path).validator
                failed == \E step \in node.steps :
                             IsError(TheEvent("return", Append(node.path, step)).val)
            IN  /\ Cardinality(EventsAt("validator", node.path)) = 1
                /\ Cardinality(EventsAt("return", node.path)) = 1
                /\ \A step \in node.steps :
                      /\ Cardinality(EventsAt("validate", Append(node.path, step))) = 1
                      /\ Cardinality(EventsAt("return", Append(node.path, step))) = 1
                      /\ EntryAt(arg, step) = TheEvent("return", Append(node.path, step)).val
                /\ IF own = Fn("noop") THEN ret = arg
                   ELSE IF failed THEN IsError(ret) /\ ret.clean_data = arg
                   ELSE ret = arg

\* a node with two children or more whose first child failed, the later
\* ones were validated all the same, and whose own validator let it pass
C11_Witness ==
    /\ AfterCall
    /\ \E node \in Parents(Called.schema, Called.raw_data, <<>>) :
          /\ Cardinality(node.steps) >= 2
          /\ \E first \in node.steps :
                /\ IsError(TheEvent("return", Append(node.path, first)).val)
                /\ \A step \in node.steps \ {first} :
                      \E i \in EventsAt("return", Append(node.path, first)),
                         j \in EventsAt("validate", Append(node.path, step)) : i < j
          /\ ~IsError(TheEvent("return", node.path).val)

\* the fields of the tree below f, f included
RECURSIVE FieldsOf(_)
FieldsOf(f) ==
    {f} \cup UNION {FieldsOf(f.children[i]) : i \in 1..Len(f.children)}

\* C12: after any sequence of is_valid() calls on the root or on sub-fields,
\* a field whose error is set has clean_data None.
C12_ErrorMeansNoCleanData ==
    pc = "bound" =>
        \A f \in FieldsOf(form) : f.error # PyNone => f.clean_data = PyNone

\* what validate returned for the field is_valid was called on
RootResult == TheEvent("return", <<>>).val

\* field f and the fields below it hold the slices of v: a failure marker
\* sets the error, another value is the clean_data, and the children take
\* the entries found at their names in the value (or in the marker's data)
RECURSIVE Received(_, _)
Received(f, v) ==
    /\ IF IsError(v) THEN f.error # PyNone ELSE f.clean_data = v
    /\ LET d == IF IsError(v) THEN v.clean_data ELSE v IN
       \A i \in 1..Len(f.children) :
           (d # PyNone /\ EntryAt(d, f.children[i].name) # NoValue)
               => Received(f.children[i], EntryAt(d, f.children[i].name))

\* C13: is_valid() returns True exactly when validate(raw_data) did not
\* return a failure marker for the field; when it returned a success value
\* every field below holds its slice of it, a descendant whose slice is a
\* failure marker having its error set although is_valid() returned True.
C13_TrueIffRootSucceeded ==
    AfterCall =>
        /\ result.val = PyBool(~IsError(RootResult))
        /\ ~IsError(RootResult) => Received(Called, RootResult)

\* C14: when _propagate_validation receives a failure marker for a field,
\* the field's error becomes the marker's message formatted with the field,
\* the call returns False and each child receives the slice of the marker's
\* partial data at its name; when the partial data is None no descendant's
\* error or clean_data changes.
C14_PropagateFailure ==
    [][(pc = "bound" /\ ncalls' = ncalls + 1 /\ IsError(RootResult'))
        => LET before == FieldAt(form, result'.path)
               after == FieldAt(form', result'.path)
           IN  /\ result'.val = PyBool(FALSE)
               /\ after.error = BindMessage(RootResult', before)
               /\ after.clean_data = before.clean_data
               /\ IF RootResult'.clean_data = PyNone
                  THEN after.children = before.children
                  ELSE \A i \in 1..Len(after.children) :
                          /\ EntryAt(RootResult'.clean_data, after.children[i].name) # NoValue
                          /\ Received(after.children[i],
                                      EntryAt(RootResult'.clean_data, after.children[i].name))
      ]_vars

\* the sequence-shaped fields of the bound tree
SequenceFields == {f \in FieldsOf(form) : is_sequence(f.schema)}

\* the number of elements of a field's raw_data
ElementCount(f) ==
    IF f.raw_data.t = "list" THEN Len(f.raw_data.elems)
    ELSE IF f.raw_data.t = "dict" THEN Len(f.raw_data.items)
    ELSE IF f.raw_data.t = "str" THEN Len(f.raw_data.s)
    ELSE 0

\* C15 as stated: a constructed sequence-shaped BoundField whose raw_data is
\* None or empty has exactly one child, bound to the child schema, with
\* raw_data None, clean_data None, error None and full_name
\* '<parent full_name>:0'; one with n >= 1 elements has exactly n children.
C15_PlaceholderRawDataNone ==
    (pc = "bound" /\ ncalls = 0) =>
        \A f \in SequenceFields :
            IF ElementCount(f) = 0
            THEN /\ Len(f.children) = 1
                 /\ f.children[1].schema = f.schema.children[1]
                 /\ f.children[1].raw_data = PyNone
                 /\ f.children[1].clean_data = PyNone
                 /\ f.children[1].error = PyNone
                 /\ f.children[1].full_name = f.full_name \o <<":", "0">>
            ELSE Len(f.children) = ElementCount(f)

\* C15: a constructed sequence-shaped BoundField whose raw_data is None or
\* empty has exactly one child, bound to the child schema and to no data
\* (its raw_data is the child's pre_processor applied to None), with
\* clean_data None, error None and full_name '<parent full_name>:0'; one
\* with n >= 1 elements has exactly n children.  The children's number,
\* schema, raw_data and full_name stay so under is_valid().
C15_SequenceHasChildren ==
    pc = "bound" =>
        \A f \in SequenceFields :
            IF ElementCount(f) = 0
            THEN /\ Len(f.children) = 1
                 /\ f.children[1].schema = f.schema.children[1]
                 /\ f.children[1].raw_data
                       = (IF f.schema.children[1].pre_processor = Fn("with_default")
                          THEN PyStr(<<"x">>) ELSE PyNone)
                 /\ ncalls = 0 => /\ f.children[1].clean_data = PyNone
                                  /\ f.children[1].error = PyNone
                 /\ f.children[1].full_name = f.full_name \o <<":", "0">>
            ELSE Len(f.children) = ElementCount(f)

\* a bound tree with a sequence of one element or more, and a sequence
\* without data whose only child has a pre_processor that fills in a value
C15_Witness ==
    /\ pc = "bound"
    /\ \E f \in SequenceFields : ElementCount(f) >= 1
    /\ \E f \in SequenceFields :
          /\ ElementCount(f) = 0
          /\ f.children[1].raw_data # PyNone

\* field f, depth steps below the root, and the fields below it carry the
\* full_name that spells the path from the root: expected for f, then
\* '.' + name below a map (no '.' directly under the root) and ':' + index
\* below a sequence, whose children are named 0..n-1 when it has elements
RECURSIVE NamedByPath(_, _, _)
NamedByPath(f, expected, depth) ==
    /\ f.full_name = expected
    /\ \A i \in 1..Len(f.children) :
          LET child == f.children[i] IN
          IF is_sequence(f.schema)
          THEN /\ ElementCount(f) >= 1 => child.name = PyInt(i - 1)
               /\ NamedByPath(child, expected \o <<":">> \o IntToStr(i - 1), depth + 1)
          ELSE NamedByPath(child,
                           (IF depth = 0 THEN <<>> ELSE expected \o <<".">>) \o child.name.s,
                           depth + 1)

C17_ValidatorInput ==
    AfterCall =>
        \A node \in Parents(Called.schema, Called.raw_data, <<>>) :
            LET sch == SchemaBelow(Called.schema, node.path)
                data == TheEvent("validate", node.path).val
                arg == TheEvent("validator", node.path).val
                Child(step) == Append(node.path, step)
            IN  IF sch.cls = "MapSchema"
                THEN /\ arg.t = "dict"
                     /\ KeysOf(arg.items) = {sch.keys[j] : j \in 1..Len(sch.keys)}
                     /\ Len(arg.items) = Len(sch.keys)
                     /\ \A j \in 1..Len(sch.keys) :
                           /\ TheEvent("validate", Child(PyStr(sch.keys[j]))).val
                                 = (IF data # PyNone /\ HasKey(data.items, sch.keys[j])
                                    THEN GetItem(data.items, sch.keys[j]) ELSE PyNone)
                           /\ GetItem(arg.items, sch.keys[j])
                                 = TheEvent("return", Child(PyStr(sch.keys[j]))).val
                ELSE /\ arg.t = "list"
                     /\ Len(arg.elems) = (IF data = PyNone THEN 0 ELSE Len(data.elems))
                     /\ \A i \in 1..Len(arg.elems) :
                           /\ TheEvent("validate", Child(PyInt(i - 1))).val = data.elems[i]
                           /\ arg.elems[i] = TheEvent("return", Child(PyInt(i - 1))).val
                     /\ data = PyNone =>
                           \A k \in 1..Len(calls) :
                               ~(/\ Len(calls[k].path) > Len(node.path)
                                 /\ SubSeq(calls[k].path, 1, Len(node.path)) = node.path)

\* a map was validated against data with a key it does not name and
\* without one of its own keys, and a sequence against None
C17_Witness ==
    /\ AfterCall
    /\ \E node \in Parents(Called.schema, Called.raw_data, <<>>) :
          LET sch == SchemaBelow(Called.schema, node.path)
              data == TheEvent("validate", node.path).val
          IN  /\ sch.cls = "MapSchema"
              /\ data # PyNone
              /\ HasKey(data.items, ExtraKey)
              /\ \E j \in 1..Len(sch.keys) : ~HasKey(data.items, sch.keys[j])
    /\ \E node \in Parents(Called.schema, Called.raw_data, <<>>) :
          /\ SchemaBelow(Called.schema, node.path).cls = "SequenceSchema"
          /\ TheEvent("validate", node.path).val = PyNone

\* every map and sequence node of the schema has the validator all_children
RECURSIVE KeepsAllChildren(_)
KeepsAllChildren(sch) ==
    /\ sch.cls # "LeafSchema" => sch.validator = Fn("all_children")
    /\ \A i \in 1..Len(sch.children) : KeepsAllChildren(sch.children[i])

\* C27: for a schema whose map and sequence nodes all keep all_children and
\* data of the schema's shape, the root's is_valid() returns True exactly
\* when, after the call, no field of the bound tree has its error set.
C27_TrueIffNoError ==
    (AfterCall /\ result.path = <<>>
        /\ KeepsAllChildren(form_schema) /\ WellShaped(form_schema, form_data))
    => (result.val = PyBool(TRUE) <=> \A f \in FieldsOf(form) : f.error = PyNone)

\* the fields of the tree below f, each with the path of names leading to it
RECURSIVE PathedFields(_, _)
PathedFields(f, path) ==
    {[field |-> f, path |-> path]}
    \cup UNION {PathedFields(f.children[i], Append(path, f.children[i].name)) :
                   i \in 1..Len(f.children)}

\* C26: during the root's is_valid() the value each field's schema node is
\* asked to validate is that field's raw_data, the data after the field's
\* own pre_processor, also for a field below the root whose schema node has
\* a pre_processor other than the identity.
C26_ValidatesRawData ==
    (AfterCall /\ result.path = <<>>) =>
        \A pf \in PathedFields(form, <<>>) :
            \A k \in EventsAt("validate", pf.path) : calls[k].val = pf.field.raw_data

\* what holds: the root validates its raw_data, and a field below it the
\* entry of its parent's validated data at its name, its own pre_processor
\* not applied
RECURSIVE ValidatesSlices(_, _, _)
ValidatesSlices(f, path, data) ==
    /\ \A k \in EventsAt("validate", path) : calls[k].val = data
    /\ \A i \in 1..Len(f.children) :
          LET name == f.children[i].name
              slice == IF data = PyNone THEN NoValue ELSE EntryAt(data, name)
          IN  ValidatesSlices(f.children[i], Append(path, name),
                              IF slice = NoValue THEN PyNone ELSE slice)

C26_ValidatesParentSlice ==
    (AfterCall /\ result.path = <<>>) => ValidatesSlices(form, <<>>, form.raw_data)

(***************************************************************************)
(* SpecBind: a client fills the two mappings and calls bind_dotted.        *)
(***************************************************************************)
MaxBindItems == 2

BindKeys == {<<"a">>, <<"b">>, <<"a", ".", "b">>}
BindValues == {PyStr(<<>>), PyNone, PyInt(0), PyStr(<<"v">>)}
BindLiterals ==
    {Fn("noop"),
     PyDict(<<<<<<"a">>, PyDict(<<<<<<"b">>, Fn("noop")>>>>)>>, <<<<"b">>, Fn("noop")>>>>)}

InitBind ==
    /\ nested = NoValue /\ flat = <<>> /\ out = NoValue
    /\ form_literal \in BindLiterals
    /\ form_schema = make_from_literal(form_literal, PyStr(<<>>))
    /\ form_data = PyDict(<<>>)
    /\ dotted2 = PyNone
    /\ form = NoValue /\ result = NoValue /\ calls = <<>> /\ ncalls = 0
    /\ form_data2 = NoValue /\ form2 = NoValue
    /\ heap = <<>> /\ given = NoValue /\ map_schema = NoValue
    /\ chain_data = NoValue
    /\ objects = <<>> /\ created = 0 /\ cache_data = <<>>
    /\ assigned = <<>> /\ invocations = <<>>
    /\ pc = "data"

\* data[key] = val, for a new key
SetDataItem ==
    /\ pc = "data"
    /\ Len(form_data.items) < MaxBindItems
    /\ \E key \in BindKeys, val \in BindValues :
        /\ ~HasKey(form_data.items, key)
        /\ form_data' = PyDict(Append(form_data.items, <<key, val>>))
    /\ UNCHANGED <<shareVars, aliasVars, chainVars, cacheVars, nested, flat, out, form_literal, form_schema, form, result,
                   calls, ncalls, dotted2, pc>>

\* data2 = {}, or data2[key] = val for a new key
SetData2Item ==
    /\ pc = "data"
    /\ \/ dotted2 = PyNone /\ dotted2' = PyDict(<<>>)
       \/ /\ dotted2 # PyNone
          /\ Len(dotted2.items) < MaxBindItems
          /\ \E key \in BindKeys, val \in BindValues :
              /\ ~HasKey(dotted2.items, key)
              /\ dotted2' = PyDict(Append(dotted2.items, <<key, val>>))
    /\ UNCHANGED <<shareVars, aliasVars, chainVars, cacheVars, nested, flat, out, form_literal, form_schema, form_data, form,
                   result, calls, ncalls, pc>>

\* form = bind_dotted(schema, data, data2)
CallBindDotted ==
    /\ pc = "data"
    /\ flat' = Filtered(Merged(form_data, dotted2))
    /\ out' = expand_dots(flat')
    /\ form' = bind_expanded(form_schema, out')
    /\ pc' = "done"
    /\ UNCHANGED <<shareVars, aliasVars, chainVars, cacheVars, nested, form_literal, form_schema, form_data, result, calls,
                   ncalls, dotted2>>

NextBind ==
    \/ SetDataItem
    \/ SetData2Item
    \/ CallBindDotted

SpecBind == InitBind /\ [][NextBind]_vars

\* the value bind_dotted's caller gave key: data2's if data2 has the key
Overlaid(key) ==
    IF dotted2 # PyNone /\ HasKey(dotted2.items, key)
    THEN GetItem(dotted2.items, key)
    ELSE GetItem(form_data.items, key)

GivenKeys ==
    KeysOf(form_data.items) \cup (IF dotted2 = PyNone THEN {} ELSE KeysOf(dotted2.items))

\* C8: bind_dotted hands expand_dots exactly data overlaid with data2 (data2
\* wins on equal literal keys) less the entries whose value is "", None and
\* 0 being kept, and a BoundField it returns is the schema bound to what
\* expand_dots returned.
C8_BindDotted ==
    pc = "done" =>
        /\ {flat[i] : i \in 1..Len(flat)}
              = {<<key, Overlaid(key)>> : key \in {k \in GivenKeys : Overlaid(k) # PyStr(<<>>)}}
        /\ \A i, j \in 1..Len(flat) : flat[i][1] = flat[j][1] => i = j
        /\ out = expand_dots(flat)
        /\ ~IsRaise(form) =>
              /\ ~IsRaise(out)
              /\ form.schema = form_schema
              /\ form.raw_data = out
              /\ form.full_name = <<>>

\* both mappings have a key for which data2 gives another value; an entry with
\* "" was removed, one with None or 0 was kept, and a BoundField was returned
C8_Witness ==
    /\ pc = "done"
    /\ dotted2 # PyNone
    /\ \E key \in KeysOf(form_data.items) \cap KeysOf(dotted2.items) :
          GetItem(form_data.items, key) # GetItem(dotted2.items, key)
    /\ \E key \in GivenKeys : Overlaid(key) = PyStr(<<>>)
    /\ \E i \in 1..Len(flat) : flat[i][2] \in {PyNone, PyInt(0)}
    /\ ~IsRaise(form)
    /\ form.raw_data # PyDict(<<>>)

\* C21: when expand_dots raises for the merged and filtered data, bind_dotted
\* ends with that very error: schema.bind is not called, so what the call
\* yields is no BoundField and nothing else than the error of expand_dots.
C21_DecodeErrorPropagates ==
    (pc = "done" /\ IsRaise(out)) =>
        /\ out = expand_dots(Filtered(Merged(form_data, dotted2)))
        /\ form = out
        /\ form.t # "field"

\* bind_dotted was called with data and data2 which only merged are in
\* conflict, for a map schema, and expand_dots raised
C21_Witness ==
    /\ pc = "done"
    /\ IsRaise(out)
    /\ form = out
    /\ form_schema.cls = "MapSchema"
    /\ dotted2 # PyNone
    /\ ~IsRaise(expand_dots(Filtered(form_data.items)))
    /\ ~IsRaise(expand_dots(Filtered(dotted2.items)))

(***************************************************************************)
(* SpecRebind: a client gives flat data for leaf positions of a map-rooted *)
(* schema, may give one leaf a pre_processor, calls bind_dotted, collects  *)
(* full_name and raw_data of the leaf fields that hold data into a second  *)
(* flat mapping (form_data2) and calls bind_dotted on that (form2).        *)
(***************************************************************************)
MaxRebindItems == 3

RebindLiterals ==
    {PyDict(<<<<<<"a">>, Fn("noop")>>, <<<<"b">>, PyList(<<Fn("noop")>>)>>>>),
     PyDict(<<<<<<"a">>, PyDict(<<<<<<"b">>, Fn("noop")>>>>)>>,
              <<<<"b">>, PyList(<<PyDict(<<<<<<"c">>, Fn("noop")>>,
                                            <<<<"d">>, Fn("noop")>>>>)>>)>>>>),
     PyDict(<<<<<<"b">>, PyList(<<PyList(<<Fn("noop")>>)>>)>>>>)}

\* the index fragments a client writes: a gap lies between 1 and 5
RebindIndexes == {<<"0">>, <<"1">>, <<"5">>}

RebindValues == {PyStr(<<"v">>), PyInt(0)}

\* the flat keys of the leaf positions at and below the node written name
RECURSIVE KeysBelow(_, _)
KeysBelow(sch, name) ==
    IF sch.cls = "LeafSchema" THEN {name}
    ELSE IF sch.cls = "SequenceSchema" THEN
        UNION {KeysBelow(sch.children[1], name \o <<":">> \o ix) : ix \in RebindIndexes}
    ELSE UNION {KeysBelow(sch.children[i], name \o <<".">> \o sch.children[i].name.s) :
                    i \in 1..Len(sch.children)}

\* the flat keys of the leaf positions of a map-rooted schema
LeafKeys(sch) ==
    UNION {KeysBelow(sch.children[i], sch.children[i].name.s) : i \in 1..Len(sch.children)}

InitRebind ==
    /\ nested = NoValue /\ flat = <<>> /\ out = NoValue
    /\ form_literal \in RebindLiterals
    /\ form_schema = make_from_literal(form_literal, PyStr(<<>>))
    /\ form_data = PyDict(<<>>)
    /\ dotted2 = PyNone
    /\ form = NoValue /\ result = NoValue /\ calls = <<>> /\ ncalls = 0
    /\ form_data2 = NoValue /\ form2 = NoValue
    /\ heap = <<>> /\ given = NoValue /\ map_schema = NoValue
    /\ chain_data = NoValue
    /\ objects = <<>> /\ created = 0 /\ cache_data = <<>>
    /\ assigned = <<>> /\ invocations = <<>>
    /\ pc = "data"

\* data[key] = val, for a new key that addresses a leaf position
SetLeafItem ==
    /\ pc = "data"
    /\ Len(form_data.items) < MaxRebindItems
    /\ \E key \in LeafKeys(form_schema), val \in RebindValues :
        /\ ~HasKey(form_data.items, key)
        /\ form_data' = PyDict(Append(form_data.items, <<key, val>>))
    /\ UNCHANGED <<expandVars, form_literal, form_schema, form, result, calls, ncalls,
                   dotted2, shareVars, aliasVars, chainVars, cacheVars, pc>>

\* leaf.pre_processor = with_default, for one leaf of the schema
AssignPreProcessor ==
    /\ pc = "data"
    /\ \A path \in LeafPaths(form_schema) :
          SchemaAt(form_schema, path).pre_processor = Fn("noop")
    /\ \E path \in LeafPaths(form_schema) :
          form_schema' = WithPreProcessor(form_schema, path, Fn("with_default"))
    /\ UNCHANGED <<expandVars, form_literal, form_data, form, result, calls, ncalls,
                   dotted2, shareVars, aliasVars, chainVars, cacheVars, pc>>

\* form = bind_dotted(schema, data)
BindLeafData ==
    /\ pc = "data"
    /\ flat' = Filtered(Merged(form_data, dotted2))
    /\ out' = expand_dots(flat')
    /\ form' = bind_dotted(form_schema, form_data, dotted2)
    /\ pc' = "bound"
    /\ UNCHANGED <<nested, form_literal, form_schema, form_data, result, calls, ncalls,
                   dotted2, shareVars, aliasVars, chainVars, cacheVars>>

\* the items (f.full_name, f.raw_data) of the leaf fields at and below f
\* whose raw_data is not None, in the order of the tree
RECURSIVE LeafItems(_)
LeafItems(f) ==
    LET RECURSIVE Cat(_, _)
        Cat(g, i) == IF i = 0 THEN <<>> ELSE Cat(g, i - 1) \o g[i]
    IN  IF f.schema.cls = "LeafSchema"
        THEN (IF f.raw_data # PyNone THEN <<<<f.full_name, f.raw_data>>>> ELSE <<>>)
        ELSE Cat([i \in 1..Len(f.children) |-> LeafItems(f.children[i])], Len(f.children))

\* form2 = bind_dotted(schema, {f.full_name: f.raw_data for the leaf fields
\* f of form with raw_data not None})
Rebind ==
    /\ pc = "bound"
    /\ ~IsRaise(form)
    /\ form_data2' = PyDict(LeafItems(form))
    /\ form2' = bind_dotted(form_schema, form_data2', PyNone)
    /\ pc' = "rebound"
    /\ UNCHANGED <<expandVars, form_literal, form_schema, form_data, form, result,
                   calls, ncalls, dotted2, aliasVars, chainVars, cacheVars>>

NextRebind ==
    \/ SetLeafItem
    \/ AssignPreProcessor
    \/ BindLeafData
    \/ Rebind

SpecRebind == InitRebind /\ [][NextRebind]_vars

\* f and g have the same full_name and raw_data, and so have their children
\* one by one
RECURSIVE SameTree(_, _)
SameTree(f, g) ==
    /\ f.full_name = g.full_name
    /\ PyEq(f.raw_data, g.raw_data)
    /\ Len(f.children) = Len(g.children)
    /\ \A i \in 1..Len(f.children) : SameTree(f.children[i], g.children[i])

\* every node of the schema has the pre_processor it was constructed with
RECURSIVE IdentityPreProcessors(_)
IdentityPreProcessors(sch) ==
    /\ sch.pre_processor = Fn("noop")
    /\ \A i \in 1..Len(sch.children) : IdentityPreProcessors(sch.children[i])

MaxShareData == 2
MaxShareCalls == 3

ShareLiterals ==
    {PyList(<<Fn("not_none")>>),
     PyDict(<<<<SchemaNames[1], Fn("not_none")>>>>),
     PyDict(<<<<SchemaNames[1], Fn("noop")>>, <<SchemaNames[2], PyList(<<Fn("not_none")>>)>>>>)}

\* the data of the schema's shape grown from None in at most n steps
RECURSIVE DataWithin(_, _, _)
DataWithin(sch, S, n) ==
    IF n = 0 THEN S
    ELSE DataWithin(sch, S \cup UNION {GrownData(sch, d) : d \in S}, n - 1)

ShareData(sch) == DataWithin(sch, {PyNone}, MaxShareData)

InitShare ==
    /\ nested = NoValue /\ flat = <<>> /\ out = NoValue /\ dotted2 = NoValue
    /\ form_literal \in ShareLiterals
    /\ form_schema = make_from_literal(form_literal, <<>>)
    /\ form_data = NoValue /\ form = NoValue
    /\ form_data2 = NoValue /\ form2 = NoValue
    /\ heap = <<>> /\ given = NoValue /\ map_schema = NoValue
    /\ chain_data = NoValue
    /\ objects = <<>> /\ created = 0 /\ cache_data = <<>>
    /\ assigned = <<>> /\ invocations = <<>>
    /\ result = NoValue /\ calls = <<>> /\ ncalls = 0
    /\ pc = "share"

\* form = BoundField(schema, data)
BindFirst ==
    /\ pc = "share"
    /\ form = NoValue
    /\ \E d \in ShareData(form_schema) : form_data' = d
    /\ form' = BoundField(form_schema, form_data', <<>>, PyNone)
    /\ UNCHANGED <<expandVars, dotted2, shareVars, aliasVars, chainVars, cacheVars, form_literal, form_schema,
                   result, calls, ncalls, pc>>

\* form2 = BoundField(schema, data2)
BindSecond ==
    /\ pc = "share"
    /\ form2 = NoValue
    /\ \E d \in ShareData(form_schema) : form_data2' = d
    /\ form2' = BoundField(form_schema, form_data2', <<>>, PyNone)
    /\ UNCHANGED <<expandVars, dotted2, aliasVars, chainVars, cacheVars, form_literal, form_schema,
                   form_data, form, result, calls, ncalls, pc>>

\* a field of the first tree .is_valid()
IsValidFirst ==
    /\ pc = "share"
    /\ form # NoValue
    /\ ncalls < MaxShareCalls
    /\ ncalls' = ncalls + 1
    /\ \E path \in FieldPaths(form) :
        LET r == is_valid(FieldAt(form, path), <<>>) IN
        /\ form' = WithField(form, path, r.field)
        /\ result' = [path |-> path, val |-> r.ret, tree |-> 1]
        /\ calls' = r.log
    /\ UNCHANGED <<expandVars, dotted2, shareVars, aliasVars, chainVars, cacheVars, form_literal, form_schema,
                   form_data, pc>>

\* a field of the second tree .is_valid()
IsValidSecond ==
    /\ pc = "share"
    /\ form2 # NoValue
    /\ ncalls < MaxShareCalls
    /\ ncalls' = ncalls + 1
    /\ \E path \in FieldPaths(form2) :
        LET r == is_valid(FieldAt(form2, path), <<>>) IN
        /\ form2' = WithField(form2, path, r.field)
        /\ result' = [path |-> path, val |-> r.ret, tree |-> 2]
        /\ calls' = r.log
    /\ UNCHANGED <<expandVars, dotted2, aliasVars, chainVars, cacheVars, form_literal, form_schema,
                   form_data, form_data2, form, pc>>

NextShare ==
    \/ BindFirst
    \/ BindSecond
    \/ IsValidFirst
    \/ IsValidSecond

SpecShare == InitShare /\ [][NextShare]_vars

\* the field and the fields below it refer to the schema node sch and the
\* nodes below it
RECURSIVE RefersTo(_, _)
RefersTo(f, sch) ==
    /\ f.schema = sch
    /\ \A i \in 1..Len(f.children) :
          RefersTo(f.children[i],
                   IF is_sequence(sch) THEN sch.children[1] ELSE sch.children[i])

\* what the fields of the tree hold after validation
RECURSIVE Annotations(_)
Annotations(f) ==
    [clean_data |-> f.clean_data, error |-> f.error,
     children |-> [i \in 1..Len(f.children) |-> Annotations(f.children[i])]]

\* C18: binding the schema and calling is_valid on fields of either tree, in
\* any order, leaves the schema tree as make_from_literal built it (children,
\* names, validators, pre_processors), every field of both trees still refers
\* to its node of that schema, and a step that binds or validates one tree
\* leaves the raw_data, clean_data and error of the other tree as they were.
C18_SchemaAndOtherTreeUnchanged ==
    [][pc = "share" =>
        /\ form_schema' = form_schema
        /\ form_schema' = make_from_literal(form_literal, <<>>)
        /\ form' # NoValue => RefersTo(form', form_schema')
        /\ form2' # NoValue => RefersTo(form2', form_schema')
        /\ form' # form => form2' = form2
        /\ form2' # form2 => form' = form]_vars

\* both trees are bound, to different data, fields of both were validated,
\* the last call was on the second tree, and the outcomes differ: a field of
\* one tree has an error where the same field of the other has none
C18_Witness ==
    /\ pc = "share"
    /\ form # NoValue /\ form2 # NoValue
    /\ form_data # form_data2
    /\ ncalls >= 2
    /\ result # NoValue /\ result.tree = 2
    /\ Annotations(form) # Annotations(BoundField(form_schema, form_data, <<>>, PyNone))
    /\ Annotations(form2) # Annotations(BoundField(form_schema, form_data2, <<>>, PyNone))
    /\ form.error # PyNone
    /\ form2.error = PyNone /\ form2.clean_data # PyNone

(***************************************************************************)
(* SpecSchema: a client builds a dict of children, constructs a MapSchema  *)
(* from it, and then assigns items of the dict it passed, assigns items of *)
(* the schema's _child_by_name, and subscripts the schema.  Dicts are      *)
(* objects: heap holds their items by reference, and two names holding the *)
(* same reference see the same items.                                      *)
(***************************************************************************)
ChildNames == {<<"a">>, <<"b">>}
ChildPool == {[LeafSchema(PyNone) EXCEPT !.validator = v] :
                 v \in {Fn("noop"), Fn("not_none")}}
\* the reference held by the client's variable children
ChildrenRef == "children"

\* MapSchema.__init__(children, name) with children a reference to a dict:
\* the tuple of the values now in the dict, and the reference itself
MapSchemaObject(ref, h, name) ==
    [t |-> "schema", cls |-> "MapSchema",
     children |-> [i \in 1..Len(h[ref]) |-> h[ref][i][2]],
     child_by_name |-> ref,
     name |-> name,
     validator |-> Fn("all_children"),
     pre_processor |-> Fn("noop")]

\* MapSchema.__getitem__: self._child_by_name[child_name]
SchemaGetItem(sch, h, child_name) ==
    IF HasKey(h[sch.child_by_name], child_name)
    THEN GetItem(h[sch.child_by_name], child_name)
    ELSE Raise("KeyError", "key", child_name)

\* the dict referred to [key] = val
DictSetItem(h, ref, key, val) == [h EXCEPT ![ref] = SetItem(@, key, val)]

InitSchema ==
    /\ nested = NoValue /\ flat = <<>> /\ out = NoValue /\ dotted2 = NoValue
    /\ form_literal = NoValue /\ form_schema = NoValue /\ form_data = NoValue
    /\ form = NoValue /\ calls = <<>> /\ ncalls = 0
    /\ form_data2 = NoValue /\ form2 = NoValue
    /\ heap = [ref \in {ChildrenRef} |-> <<>>]
    /\ given = NoValue /\ map_schema = NoValue
    /\ chain_data = NoValue
    /\ objects = <<>> /\ created = 0 /\ cache_data = <<>>
    /\ assigned = <<>> /\ invocations = <<>>
    /\ result = NoValue
    /\ pc = "children"

SchemaFrame ==
    UNCHANGED <<expandVars, dotted2, shareVars, chainVars, cacheVars,
                form_literal, form_schema, form_data, form, calls, ncalls>>

\* children[key] = child, before the schema is constructed
BuildChildren ==
    /\ pc = "children"
    /\ \E key \in ChildNames, child \in ChildPool :
          heap' = DictSetItem(heap, ChildrenRef, key, child)
    /\ SchemaFrame
    /\ UNCHANGED <<given, map_schema, result, pc>>

\* schema = MapSchema(children)
ConstructMapSchema ==
    /\ pc = "children"
    /\ map_schema' = MapSchemaObject(ChildrenRef, heap, <<>>)
    /\ given' = heap[ChildrenRef]
    /\ pc' = "built"
    /\ SchemaFrame
    /\ UNCHANGED <<heap, result>>

\* children[key] = child, on the dict that was passed to the constructor
MutateChildren ==
    /\ pc = "built"
    /\ \E key \in ChildNames, child \in ChildPool :
          /\ heap' = DictSetItem(heap, ChildrenRef, key, child)
          /\ result' = [op |-> "children_setitem", key |-> key, val |-> PyNone]
    /\ SchemaFrame
    /\ UNCHANGED <<given, map_schema, pc>>

\* schema._child_by_name[key] = child: item assignment on a dict completes
AssignChildByName ==
    /\ pc = "built"
    /\ \E key \in ChildNames, child \in ChildPool :
          /\ heap' = DictSetItem(heap, map_schema.child_by_name, key, child)
          /\ result' = [op |-> "child_by_name_setitem", key |-> key, val |-> PyNone]
    /\ SchemaFrame
    /\ UNCHANGED <<given, map_schema, pc>>

\* schema[key]
GetChild ==
    /\ pc = "built"
    /\ \E key \in ChildNames :
          result' = [op |-> "getitem", key |-> key,
                     val |-> SchemaGetItem(map_schema, heap, key)]
    /\ SchemaFrame
    /\ UNCHANGED <<heap, given, map_schema, pc>>

\* Schema instances a client may place in a literal: the MapSchema just
\* constructed, a SequenceSchema and a LeafSchema with a validator attached
SchemaInstances(sch) ==
    {sch,
     SequenceSchema(LeafSchema(PyInt(0)), PyStr(<<"s">>)),
     [LeafSchema(PyStr(<<"l">>)) EXCEPT !.validator = Fn("not_none")]}

\* the instance at top level, as a value of a dict literal, as the element
\* of a list literal
InstanceLiterals(inst) ==
    {inst,
     PyDict(<<<<SchemaNames[1], Fn("noop")>>, <<SchemaNames[2], inst>>>>),
     PyList(<<inst>>)}

\* make_from_literal(literal) with a Schema instance in the literal
MakeFromInstance ==
    /\ pc = "built"
    /\ form_literal = NoValue
    /\ \E inst \in SchemaInstances(map_schema) :
          \E literal \in InstanceLiterals(inst) : form_literal' = literal
    /\ form_schema' = make_from_literal(form_literal', <<>>)
    /\ UNCHANGED <<expandVars, dotted2, shareVars, aliasVars, chainVars, cacheVars, form_data, form,
                   result, calls, ncalls, pc>>

NextSchema ==
    \/ BuildChildren
    \/ ConstructMapSchema
    \/ MutateChildren
    \/ AssignChildByName
    \/ GetChild
    \/ MakeFromInstance

SpecSchema == InitSchema /\ [][NextSchema]_vars

\* schema[key] as it was when the schema was constructed
GivenItem(key) ==
    IF HasKey(given, key) THEN GetItem(given, key)
    ELSE Raise("KeyError", "key", key)

\* C19: once MapSchema(children) is constructed, schema[name] returns for
\* every name what it returned at construction, whatever was assigned to the
\* dict passed to the constructor, and an item assignment on the schema's
\* _child_by_name raises TypeError.
C19_MappingFixed ==
    pc = "built" =>
        /\ \A key \in ChildNames :
              SchemaGetItem(map_schema, heap, key) = GivenItem(key)
        /\ (result # NoValue /\ result.op = "child_by_name_setitem")
              => (IsRaise(result.val) /\ result.val.exc = "TypeError")

\* what does hold: the children tuple is the values given at construction
C19_ChildrenTupleFixed ==
    pc = "built" =>
        map_schema.children = [i \in 1..Len(given) |-> given[i][2]]

\* the node made for every Schema instance in the literal has the instance's
\* children and validator, and is not a leaf validated by the instance
RECURSIVE AcceptsInstances(_, _)
AcceptsInstances(literal, sch) ==
    IF literal.t = "schema" THEN
        /\ sch.children = literal.children
        /\ sch.validator = literal.validator
        /\ ~(sch.cls = "LeafSchema" /\ sch.validator = literal)
    ELSE IF literal.t = "dict" THEN
        \A i \in 1..Len(literal.items) :
            AcceptsInstances(literal.items[i][2], sch.children[i])
    ELSE IF literal.t = "list" THEN
        AcceptsInstances(literal.elems[1], sch.children[1])
    ELSE TRUE

\* C20: make_from_literal of a literal holding a Schema instance, at top
\* level or inside a dict or list literal, makes for the instance a node with
\* the instance's children and the instance's validator, and not a leaf
\* whose validator is the instance itself.
C20_InstanceAccepted ==
    (pc = "built" /\ form_schema # NoValue)
        => AcceptsInstances(form_literal, form_schema)

\* what the code makes of an instance: a LeafSchema with no children, named
\* for its position, whose validator is the instance
RECURSIVE InstanceIsValidator(_, _)
InstanceIsValidator(literal, sch) ==
    IF literal.t = "schema" THEN
        /\ sch.cls = "LeafSchema"
        /\ sch.children = <<>>
        /\ sch.validator = literal
    ELSE IF literal.t = "dict" THEN
        \A i \in 1..Len(literal.items) :
            InstanceIsValidator(literal.items[i][2], sch.children[i])
    ELSE IF literal.t = "list" THEN
        InstanceIsValidator(literal.elems[1], sch.children[1])
    ELSE TRUE

C20_InstanceBecomesValidator ==
    (pc = "built" /\ form_schema # NoValue)
        => InstanceIsValidator(form_literal, form_schema)

(***************************************************************************)
(* SpecChain: chain(v1, ..., vn)(x), one pass of its loop at a time.       *)
(* form_literal holds the validators, form_data the argument x, ncalls the *)
(* number of validators left behind, calls every invocation made.          *)
(***************************************************************************)
MaxChain == 3

ChainValidators ==
    {Fn("noop"), Fn("with_default"), Fn("not_none"), Fn("ensure_str"), Fn("as_int")}
ChainInputs == {PyNone, PyStr(<<"x">>), PyStr(<<"7">>), PyInt(7)}

RECURSIVE ValidatorLists(_)
ValidatorLists(n) ==
    IF n = 0 THEN {<<>>}
    ELSE LET shorter == ValidatorLists(n - 1) IN
         shorter \cup {Append(vs, v) : vs \in shorter, v \in ChainValidators}

\* the body of the loop with every validator handed the argument of the chain
chain_step_FromArgument(val, data) == CallValidator(val, form_data)

\* val(data), whose result the loop assigns to data
chain_step(val, data) == CallValidator(val, data)

InitChain ==
    /\ ExpandIdle
    /\ form_literal \in {PyList(vs) : vs \in ValidatorLists(MaxChain)}
    /\ form_data \in ChainInputs
    /\ form_schema = NoValue /\ form = NoValue
    /\ result = NoValue /\ calls = <<>> /\ ncalls = 0
    /\ pc = "chain"

ChainFrame ==
    UNCHANGED <<expandVars, dotted2, shareVars, aliasVars, cacheVars,
                form_literal, form_schema, form_data, form>>

\* chained_validator(x) is entered
CallChained ==
    /\ pc = "chain"
    /\ chain_data' = form_data
    /\ pc' = "loop"
    /\ ChainFrame
    /\ UNCHANGED <<result, calls, ncalls>>

\* data = val(data) for the next validator; an error leaves the function
ChainStep ==
    /\ pc = "loop"
    /\ ncalls < Len(form_literal.elems)
    /\ LET ret == chain_step(form_literal.elems[ncalls + 1], chain_data) IN
       /\ calls' = Append(calls, [validator |-> ncalls + 1, arg |-> chain_data,
                                  ret |-> ret])
       /\ IF IsRaise(ret)
          THEN result' = ret /\ pc' = "done" /\ UNCHANGED <<chain_data, ncalls>>
          ELSE chain_data' = ret /\ ncalls' = ncalls + 1 /\ UNCHANGED <<result, pc>>
    /\ ChainFrame

\* return data
ChainReturn ==
    /\ pc = "loop"
    /\ ncalls = Len(form_literal.elems)
    /\ result' = chain_data
    /\ pc' = "done"
    /\ ChainFrame
    /\ UNCHANGED <<chain_data, calls, ncalls>>

NextChain ==
    \/ CallChained
    \/ ChainStep
    \/ ChainReturn

SpecChain == InitChain /\ [][NextChain]_vars

\* C23: the invocations chain(v1, ..., vn)(x) makes are of v1, v2, ... in
\* that order, each once; v1 receives x and every later one what the one
\* before it returned; when none raised, all n were invoked and the chain
\* returns what vn returned (x for n = 0); when vi raised, the chain ends
\* with that error and v(i+1)..vn were not invoked.
C23_ChainPipes ==
    pc \in {"loop", "done"} =>
        /\ \A i \in 1..Len(calls) :
              /\ calls[i].validator = i
              /\ calls[i].ret = CallValidator(form_literal.elems[i], calls[i].arg)
              /\ calls[i].arg = IF i = 1 THEN form_data ELSE calls[i - 1].ret
              /\ IsRaise(calls[i].ret) => i = Len(calls)
        /\ pc = "done" =>
              IF calls # <<>> /\ IsRaise(calls[Len(calls)].ret)
              THEN result = calls[Len(calls)].ret
              ELSE /\ Len(calls) = Len(form_literal.elems)
                   /\ result = IF calls = <<>> THEN form_data
                               ELSE calls[Len(calls)].ret

\* a chain of three validators of which the first changed the data and the
\* second raised, so that the third was never invoked
C23_Witness ==
    /\ pc = "done"
    /\ Len(form_literal.elems) = 3
    /\ Len(calls) = 2
    /\ calls[1].ret # calls[1].arg
    /\ IsRaise(result)
    /\ ~IsRaise(CallValidator(form_literal.elems[2], form_data))

\* a chain of three validators all of which were invoked, the second
\* changing the data the third then received and returned
C23_WitnessAll ==
    /\ pc = "done"
    /\ Len(calls) = 3
    /\ ~IsRaise(result)
    /\ calls[2].ret # calls[2].arg
    /\ result = calls[2].ret

(***************************************************************************)
(* cache: WeakKeyNonHashingDict and weak_cache.  An object is known by its *)
(* address, id(obj), and by the serial number of its creation: an address  *)
(* is free again once its object is collected, and the next object may be  *)
(* created there.  _data maps an address to the weak reference made for    *)
(* the key and the value; the weak reference lives as long as its entry.   *)
(***************************************************************************)
MaxAddrs == 2
MaxObjects == 3
MaxInvocations == 3

Addrs == 1..MaxAddrs
KeyError == Raise("KeyError", "key", <<>>)
WeakrefTypeError == Raise("TypeError", "weakref", <<>>)

\* an object: weakable is whether weakref.ref accepts it (a WeakableDict, not
\* a dict); rejected is whether the wrapped function raises for its contents
Object(addr, serial, weakable, rejected) ==
    [addr |-> addr, serial |-> serial, weakable |-> weakable, rejected |-> rejected]

Without(data, key) == [k \in DOMAIN data \ {key} |-> data[k]]
With(data, key, entry) ==
    [k \in DOMAIN data \cup {key} |-> IF k = key THEN entry ELSE data[k]]

\* WeakKeyNonHashingDict.__getitem__
cache_getitem(data, obj) ==
    IF obj.addr \in DOMAIN data THEN data[obj.addr].value ELSE KeyError

\* WeakKeyNonHashingDict.__setitem__: _data afterwards and what was raised
cache_setitem(data, obj, value) ==
    IF obj.addr \in DOMAIN data
    THEN [data |-> With(data, obj.addr, [ref |-> data[obj.addr].ref, value |-> value]),
          exc |-> PyNone]
    ELSE IF ~obj.weakable THEN [data |-> data, exc |-> WeakrefTypeError]
    ELSE [data |-> With(data, obj.addr, [ref |-> [target |-> obj, key |-> obj.addr],
                                         value |-> value]),
          exc |-> PyNone]

\* WeakKeyNonHashingDict.__delitem__
cache_delitem(data, obj) ==
    IF obj.addr \in DOMAIN data
    THEN [data |-> Without(data, obj.addr), exc |-> PyNone]
    ELSE [data |-> data, exc |-> KeyError]

\* WeakKeyNonHashingDict.__len__
cache_len(data) == PyInt(Cardinality(DOMAIN data))

\* a dict that keeps the entry of a collected key
on_destroy_Nothing(data, obj) == data

\* obj is collected: on_destroy of every live weak reference to it runs
on_destroy(data, obj) ==
    [k \in {x \in DOMAIN data : \A y \in DOMAIN data :
                                   data[y].ref.target = obj => data[y].ref.key # x}
       |-> data[k]]

\* the wrapped function of the tests, on its n-th invocation: it returns n,
\* or raises for contents it rejects
func(obj, n) ==
    IF obj.rejected THEN Raise("ValueError", "rejected", <<>>) ELSE PyInt(n)

\* a wrapper that stores nothing
wrapper_NoStore(data, obj, n) ==
    [data |-> data, ret |-> func(obj, n), invoked |-> TRUE]

\* weak_cache.wrapper(data): _data afterwards, what the call returned or
\* raised, and whether func was invoked
wrapper(data, obj, n) ==
    IF ~IsRaise(cache_getitem(data, obj))
    THEN [data |-> data, ret |-> cache_getitem(data, obj), invoked |-> FALSE]
    ELSE IF IsRaise(func(obj, n))
    THEN [data |-> data, ret |-> func(obj, n), invoked |-> TRUE]
    ELSE [data |-> cache_setitem(data, obj, func(obj, n)).data,
          ret |-> IF IsRaise(cache_setitem(data, obj, func(obj, n)).exc)
                  THEN cache_setitem(data, obj, func(obj, n)).exc
                  ELSE func(obj, n),
          invoked |-> TRUE]

InitObjects ==
    /\ ExpandIdle
    /\ form_literal = NoValue /\ form_schema = NoValue /\ form_data = NoValue
    /\ form = NoValue /\ calls = <<>> /\ ncalls = 0
    /\ result = NoValue

CacheFrame ==
    UNCHANGED <<expandVars, dotted2, shareVars, aliasVars, chainVars,
                form_literal, form_schema, form_data, form, calls, ncalls, pc>>

\* an object is created at a free address
NewObject ==
    /\ created < MaxObjects
    /\ \E addr \in Addrs \ DOMAIN objects, weakable \in BOOLEAN, rejected \in BOOLEAN :
          objects' = With(objects, addr, Object(addr, created + 1, weakable, rejected))
    /\ created' = created + 1
    /\ CacheFrame
    /\ UNCHANGED <<cache_data, assigned, invocations, result>>

\* the last reference to an object is dropped and the object is collected
Collect ==
    /\ \E addr \in DOMAIN objects :
          /\ objects' = Without(objects, addr)
          /\ cache_data' = on_destroy(cache_data, objects[addr])
          /\ result' = [op |-> "collect", obj |-> objects[addr], val |-> PyNone]
    /\ CacheFrame
    /\ UNCHANGED <<created, assigned, invocations>>

(***************************************************************************)
(* SpecIdDict: item assignments, deletions, lookups and len() on a         *)
(* WeakKeyNonHashingDict, and collections of its keys.  assigned maps      *)
(* every object assigned and not deleted since to the value last assigned. *)
(***************************************************************************)
CacheValues == {PyInt(1), PyInt(2)}

InitIdDict == InitObjects /\ pc = "dict"

\* d[obj] = value
SetCacheItem ==
    /\ \E addr \in DOMAIN objects, value \in CacheValues :
          LET r == cache_setitem(cache_data, objects[addr], value) IN
          /\ cache_data' = r.data
          /\ assigned' = IF IsRaise(r.exc) THEN assigned
                         ELSE With(assigned, objects[addr], value)
          /\ result' = [op |-> "setitem", obj |-> objects[addr], val |-> r.exc]
    /\ CacheFrame
    /\ UNCHANGED <<objects, created, invocations>>

\* del d[obj]
DelCacheItem ==
    /\ \E addr \in DOMAIN objects :
          LET r == cache_delitem(cache_data, objects[addr]) IN
          /\ cache_data' = r.data
          /\ assigned' = IF IsRaise(r.exc) THEN assigned
                         ELSE Without(assigned, objects[addr])
          /\ result' = [op |-> "delitem", obj |-> objects[addr], val |-> r.exc]
    /\ CacheFrame
    /\ UNCHANGED <<objects, created, invocations>>

\* d[obj]
GetCacheItem ==
    /\ \E addr \in DOMAIN objects :
          result' = [op |-> "getitem", obj |-> objects[addr],
                     val |-> cache_getitem(cache_data, objects[addr])]
    /\ CacheFrame
    /\ UNCHANGED <<cacheVars>>

\* len(d)
CacheLen ==
    /\ result' = [op |-> "len", obj |-> NoValue, val |-> cache_len(cache_data)]
    /\ CacheFrame
    /\ UNCHANGED <<cacheVars>>

NextIdDict ==
    \/ NewObject
    \/ Collect
    \/ SetCacheItem
    \/ DelCacheItem
    \/ GetCacheItem
    \/ CacheLen

SpecIdDict == InitIdDict /\ [][NextIdDict]_vars

IsAlive(obj) == obj.addr \in DOMAIN objects /\ objects[obj.addr] = obj

\* the objects assigned, not deleted since, and still alive
LiveKeys == {obj \in DOMAIN assigned : IsAlive(obj)}

\* C25: after any item assignments, deletions and key collections the dict
\* holds exactly the objects that were assigned, not deleted since and are
\* still alive, each with the value last assigned: len() is their number, an
\* entry is gone once its key is collected, and a lookup of a key that was
\* deleted (or never assigned) raises KeyError.
C25_LiveAssignedKeys ==
    pc = "dict" =>
        /\ Cardinality(DOMAIN cache_data) = Cardinality(LiveKeys)
        /\ \A addr \in DOMAIN cache_data :
              /\ cache_data[addr].ref.target \in LiveKeys
              /\ cache_data[addr].ref.target.addr = addr
              /\ cache_data[addr].value = assigned[cache_data[addr].ref.target]
        /\ (result # NoValue /\ result.op = "len")
              => result.val = PyInt(Cardinality(LiveKeys))
        /\ (result # NoValue /\ result.op = "getitem")
              => result.val = IF result.obj \in LiveKeys THEN assigned[result.obj]
                              ELSE KeyError
        /\ (result # NoValue /\ result.op = "collect")
              => result.obj.addr \notin DOMAIN cache_data

\* a key was assigned and collected, another object was created at its
\* address and looked up, which raised KeyError, while a second key is
\* still held
C25_Witness ==
    /\ pc = "dict"
    /\ result # NoValue /\ result.op = "getitem" /\ result.val = KeyError
    /\ \E obj \in DOMAIN assigned :
          ~IsAlive(obj) /\ obj.addr = result.obj.addr
    /\ Cardinality(DOMAIN cache_data) = 1
    /\ Cardinality(DOMAIN assigned) = 2

(***************************************************************************)
(* SpecWeakCache: calls of a function wrapped by weak_cache, and           *)
(* collections of the objects it was called with.  assigned maps every     *)
(* object the wrapper stored a result for to that result.                  *)
(***************************************************************************)
InitWeakCache == InitObjects /\ pc = "wrapped"

\* wrapper(obj)
CallWrapper ==
    /\ \E addr \in DOMAIN objects :
          LET r == wrapper(cache_data, objects[addr], Len(invocations) + 1) IN
          /\ r.invoked => Len(invocations) < MaxInvocations
          /\ cache_data' = r.data
          /\ invocations' = IF r.invoked THEN Append(invocations, objects[addr])
                            ELSE invocations
          /\ assigned' = IF r.invoked /\ ~IsRaise(r.ret)
                         THEN With(assigned, objects[addr], r.ret) ELSE assigned
          /\ result' = [op |-> "call", obj |-> objects[addr], val |-> r.ret]
    /\ CacheFrame
    /\ UNCHANGED <<objects, created>>

NextWeakCache ==
    \/ NewObject
    \/ Collect
    \/ CallWrapper

SpecWeakCache == InitWeakCache /\ [][NextWeakCache]_vars

InvocationsOf(obj) == {i \in 1..Len(invocations) : invocations[i] = obj}

LowerLetters == <<"a", "b", "c", "d", "e", "f", "g", "h", "i", "j", "k", "l", "m",
                  "n", "o", "p", "q", "r", "s", "t", "u", "v", "w", "x", "y", "z">>
\* the letter u with diaeresis, by its code point
NonAscii == "U+00FC"

IsLetter(c) == \E i \in 1..Len(LowerLetters) : LowerLetters[i] = c
IsAlnum(c) == IsLetter(c) \/ IsDigit(c)
IsAscii(s) == \A i \in 1..Len(s) : s[i] # NonAscii

\* str.split(sep) for a one-character sep
RECURSIVE SplitOn(_, _)
SplitOn(s, sep) ==
    IF \A i \in 1..Len(s) : s[i] # sep THEN <<s>>
    ELSE LET i == CHOOSE x \in 1..Len(s) :
                      s[x] = sep /\ \A y \in 1..(x - 1) : s[y] # sep
         IN  <<SubSeq(s, 1, i - 1)>> \o SplitOn(SubSeq(s, i + 1, Len(s)), sep)

\* '.'.join(parts)
RECURSIVE JoinDots(_)
JoinDots(parts) ==
    IF Len(parts) = 1 THEN parts[1]
    ELSE parts[1] \o <<".">> \o JoinDots(Tail(parts))

\* value.rsplit('@', 1) of a value holding '@'
LastAt(s) == CHOOSE i \in 1..Len(s) : s[i] = "@" /\ \A j \in (i + 1)..Len(s) : s[j] # "@"

\* the character class of a dot-atom, case ignored (the backquote, which no
\* string here holds, left out)
IsAtomChar(c) ==
    \/ IsAlnum(c)
    \/ c \in {"-", "!", "#", "$", "%", "&", "'", "*", "+", "/", "=", "?", "^",
              "_", "{", "}", "|", "~"}

\* the body of a quoted-string: characters other than '"', '\', blank, tab,
\* LF and CR, or '\' followed by a character other than LF and CR
RECURSIVE IsQuotedBody(_)
IsQuotedBody(s) ==
    IF s = <<>> THEN TRUE
    ELSE IF Head(s) = "\\"
         THEN Len(s) >= 2 /\ s[2] # NonAscii /\ IsQuotedBody(SubSeq(s, 3, Len(s)))
    ELSE Head(s) \notin {"\"", " ", NonAscii} /\ IsQuotedBody(Tail(s))

\* user_regex.match(user_part): a dot-atom or a quoted-string
user_regex(user_part) ==
    \/ LET atoms == SplitOn(user_part, ".") IN
       \A i \in 1..Len(atoms) :
          atoms[i] # <<>> /\ \A j \in 1..Len(atoms[i]) : IsAtomChar(atoms[i][j])
    \/ /\ Len(user_part) >= 2
       /\ Head(user_part) = "\"" /\ user_part[Len(user_part)] = "\""
       /\ IsQuotedBody(SubSeq(user_part, 2, Len(user_part) - 1))

\* [A-Z0-9](?:[A-Z0-9-]{0,247}[A-Z0-9])?
IsDomainLabel(label) ==
    /\ Len(label) \in 1..249
    /\ IsAlnum(label[1]) /\ IsAlnum(label[Len(label)])
    /\ \A i \in 1..Len(label) : IsAlnum(label[i]) \/ label[i] = "-"

\* (?:[A-Z]{2,6}|[A-Z0-9-]{2,}(?<!-))
IsTopLevel(tld) ==
    \/ Len(tld) \in 2..6 /\ \A i \in 1..Len(tld) : IsLetter(tld[i])
    \/ /\ Len(tld) >= 2
       /\ \A i \in 1..Len(tld) : IsAlnum(tld[i]) \/ tld[i] = "-"
       /\ tld[Len(tld)] # "-"

\* domain_regex.match(domain_part)
domain_regex(domain_part) ==
    LET labels == SplitOn(domain_part, ".") IN
    /\ Len(labels) >= 2
    /\ \A i \in 1..(Len(labels) - 1) : IsDomainLabel(labels[i])
    /\ IsTopLevel(labels[Len(labels)])

\* (25[0-5]|2[0-4]\d|[0-1]?\d?\d)
IsOctet(o) ==
    /\ Len(o) \in 1..3
    /\ \A i \in 1..Len(o) : IsDigit(o[i])
    /\ Len(o) = 3 =>
          \/ o[1] \in {"0", "1"}
          \/ o[1] = "2" /\ DigitVal(o[2]) <= 4
          \/ o[1] = "2" /\ o[2] = "5" /\ DigitVal(o[3]) <= 5

\* ip_v46_regex.match(ip_address)
ip_v46_regex(ip_address) ==
    LET octets == SplitOn(ip_address, ".") IN
    Len(octets) = 4 /\ \A i \in 1..4 : IsOctet(octets[i])

\* [A-f0-9:\.], case ignored: the range A-f holds [ \ ] ^ _ as well
IsLiteralChar(c) ==
    IsAlnum(c) \/ c \in {":", ".", "[", "\\", "]", "^", "_"}

\* literal_regex.match(domain_part): group 1, or <<>> for no match
literal_regex(domain_part) ==
    IF /\ Len(domain_part) >= 3
       /\ Head(domain_part) = "[" /\ domain_part[Len(domain_part)] = "]"
       /\ \A i \in 2..(Len(domain_part) - 1) : IsLiteralChar(domain_part[i])
    THEN SubSeq(domain_part, 2, Len(domain_part) - 1)
    ELSE <<>>

\* EmailValidator.validate_domain_part
validate_domain_part(domain_part) ==
    \/ domain_regex(domain_part)
    \/ /\ literal_regex(domain_part) # <<>>
       /\ ip_v46_regex(literal_regex(domain_part))

domain_whitelist == {<<"l", "o", "c", "a", "l", "h", "o", "s", "t">>}

\* str.encode('idna'): punycode of a label whose only non-ASCII letter is
\* NonAscii (U+00FC)
PunyDigits == LowerLetters \o Digits

PunyT(k, bias) ==
    IF k - bias < 1 THEN 1 ELSE IF k - bias > 26 THEN 26 ELSE k - bias

RECURSIVE PunyInteger(_, _, _)
PunyInteger(q, k, bias) ==
    LET t == PunyT(k, bias) IN
    IF q < t THEN <<PunyDigits[q + 1]>>
    ELSE <<PunyDigits[t + ((q - t) % (36 - t)) + 1]>>
         \o PunyInteger((q - t) \div (36 - t), k + 36, bias)

RECURSIVE PunyDivisions(_, _)
PunyDivisions(delta, divisions) ==
    IF delta > 455 THEN PunyDivisions(delta \div 35, divisions + 36)
    ELSE divisions + ((36 * delta) \div (delta + 38))

PunyAdapt(delta, first, numchars) ==
    LET d == IF first THEN delta \div 700 ELSE delta \div 2 IN
    PunyDivisions(d + (d \div numchars), 0)

Punycode(label) ==
    LET base == SelectSeq(label, LAMBDA c : c # NonAscii)
        RECURSIVE Extended(_, _, _, _, _)
        \* gap: the characters since the last NonAscii; points: those encoded
        Extended(i, gap, points, bias, unused) ==
            IF i > Len(label) THEN <<>>
            ELSE IF label[i] # NonAscii
                 THEN Extended(i + 1, gap + 1, points, bias, unused)
            ELSE LET delta == IF points = 0
                              THEN (Len(base) + 1) * (252 - 128) + gap
                              ELSE gap
                 IN  PunyInteger(delta, 36, bias)
                     \o Extended(i + 1, 0, points + 1,
                                 PunyAdapt(delta, points = 0, Len(base) + points + 1),
                                 unused)
    IN  (IF base # <<>> THEN base \o <<"-">> ELSE <<>>)
        \o Extended(1, 0, 0, 72, 0)

\* encodings.idna.ToASCII(label) raises UnicodeError
ToASCIIFails(label) ==
    IF IsAscii(label) THEN Len(label) \notin 1..63
    ELSE \/ Len(label) >= 4 /\ SubSeq(label, 1, 4) = <<"x", "n", "-", "-">>
         \/ Len(Punycode(label)) + 4 >= 64

\* encodings.idna.ToASCII(label), when it raises nothing
ToASCII(label) ==
    IF IsAscii(label) THEN label
    ELSE <<"x", "n", "-", "-">> \o Punycode(label)

\* the labels str.encode('idna') converts: a trailing empty label is set aside
IdnaLabels(domain_part) ==
    LET labels == SplitOn(domain_part, ".") IN
    IF labels[Len(labels)] = <<>> THEN SubSeq(labels, 1, Len(labels) - 1)
    ELSE labels

\* domain_part.encode('idna') raises UnicodeError
IdnaFails(domain_part) ==
    LET labels == SplitOn(domain_part, ".")
        n == Len(labels)
    IN  IF domain_part = <<>> THEN FALSE
        ELSE IF IsAscii(domain_part)
        THEN \/ \E i \in 1..(n - 1) : Len(labels[i]) \notin 1..63
             \/ Len(labels[n]) >= 64
        ELSE \E i \in 1..Len(IdnaLabels(domain_part)) :
                ToASCIIFails(IdnaLabels(domain_part)[i])

\* domain_part.encode('idna').decode('ascii'), when it raises nothing
IdnaEncode(domain_part) ==
    LET labels == SplitOn(domain_part, ".")
        kept == IdnaLabels(domain_part)
    IN  IF domain_part = <<>> \/ IsAscii(domain_part) THEN domain_part
        ELSE JoinDots([i \in 1..Len(kept) |-> ToASCII(kept[i])])
             \o (IF labels[Len(labels)] = <<>> THEN <<".">> ELSE <<>>)

EmailError(value) ==
    RaiseVE(ValidationError(DeferredMessage("Enter a valid email address."), value))

\* EmailValidator.__call__(value): what it returns, or the error it raises
EmailValidator(value) ==
    IF value.t # "str"
    THEN RaiseVE(ValidationError(DeferredMessage("{field.name} must be a {class_sig}"), value))
    ELSE IF value.s = <<>> \/ \A i \in 1..Len(value.s) : value.s[i] # "@"
    THEN EmailError(value)
    ELSE LET user_part == SubSeq(value.s, 1, LastAt(value.s) - 1)
             domain_part == SubSeq(value.s, LastAt(value.s) + 1, Len(value.s))
         IN  IF ~user_regex(user_part) THEN EmailError(value)
             ELSE IF domain_part \notin domain_whitelist
                     /\ ~validate_domain_part(domain_part)
             THEN IF /\ ~IdnaFails(domain_part)
                     /\ validate_domain_part(IdnaEncode(domain_part))
                  THEN PyNone  \* a bare return
                  ELSE EmailError(value)
             ELSE value

(***************************************************************************)
(* SpecEmail: email(value) for the values made of at most MaxEmailTokens   *)
(* pieces, for bracketed literals of four octets, and for values that are  *)
(* no str.                                                                 *)
(***************************************************************************)
MaxEmailTokens == 5

EmailTokens ==
    {<<"u">>, <<"@">>, <<".">>, <<"d", "d">>, <<NonAscii>>, <<"[">>, <<"]">>,
     <<"-">>, <<"l", "o", "c", "a", "l", "h", "o", "s", "t">>}

RECURSIVE TokenStrings(_)
TokenStrings(n) ==
    IF n = 0 THEN {<<>>}
    ELSE LET shorter == TokenStrings(n - 1) IN
         shorter \cup {s \o tok : s \in shorter, tok \in EmailTokens}

OctetPool == {<<"7">>, <<"2", "5">>, <<"2", "5", "5">>, <<"2", "5", "6">>, <<"3", "0", "0">>}

LiteralValues ==
    {<<"u", "@", "[">> \o JoinDots(<<a, b, c, d>>) \o <<"]">> :
        a \in {<<"7">>}, b \in OctetPool, c \in OctetPool, d \in OctetPool}

EmailValues ==
    {PyStr(s) : s \in TokenStrings(MaxEmailTokens) \cup LiteralValues}
    \cup {PyNone, PyInt(0)}

InitEmail ==
    /\ ExpandIdle
    /\ form_literal = NoValue /\ form_schema = NoValue /\ form = NoValue
    /\ calls = <<>> /\ ncalls = 0
    /\ form_data \in EmailValues
    /\ result = NoValue
    /\ pc = "value"

\* result = email(value)
CallEmail ==
    /\ pc = "value"
    /\ result' = EmailValidator(form_data)
    /\ pc' = "done"
    /\ UNCHANGED <<expandVars, dotted2, shareVars, aliasVars, chainVars, cacheVars, form_literal,
                   form_schema, form_data, form, calls, ncalls>>

NextEmail == CallEmail

SpecEmail == InitEmail /\ [][NextEmail]_vars

\* the part of the value after its last '@'
DomainOf(value) == SubSeq(value.s, LastAt(value.s) + 1, Len(value.s))

\* C22: whenever email(value) raises no ValidationError it returns value
\* itself, whichever way the domain was accepted: by the domain pattern, by
\* the whitelist, as a bracketed IP literal, or only once IDNA-encoded.
C22_AcceptedValueReturned ==
    (pc = "done" /\ ~IsRaise(result)) => result = form_data

\* what holds: an accepted value is returned itself unless its domain was
\* accepted only once encoded, and then None is returned
C22_ReturnedUnlessEncoded ==
    (pc = "done" /\ ~IsRaise(result)) =>
        IF DomainOf(form_data) \in domain_whitelist
           \/ validate_domain_part(DomainOf(form_data))
        THEN result = form_data
        ELSE result = PyNone

====
